---- MODULE Spec2Model ----
(***************************************************************************)
(* State-machine model of snowmobile's script engine: Script.filter /      *)
(* Script.run, Statement.run with its QA variants, and the ExceptionHandler *)
(* ledger, as written in src/snowmobile/core/{script,statement,            *)
(* exception_handler}.py and src/snowmobile/core/statement/qa.py.          *)
(*                                                                         *)
(* Conventions:                                                            *)
(*  - Python's None is the falsy value 0 (every use in the code is a       *)
(*    truthiness test or a dictionary lookup that no context id satisfies).*)
(*  - time.time() / time.time_ns() read `clock` and advance it by one      *)
(*    (Error.__init__ reads it for tmstmp, collect for the ledger key).    *)
(*  - An exception object is a record; has_to_raise tells whether the      *)
(*    object carries a `to_raise` attribute (snowmobile's Error classes    *)
(*    do, Python's built-in exceptions do not).                            *)
(***************************************************************************)
EXTENDS Integers, Sequences, FiniteSets, TLC

\* ------------------------------------------------------------------ bounds
NumStatements == 3
MaxClock == 5
MaxDepth == 2

\* --------------------------------------------------------------- constants
None == 0
FreshCtx == -1
OUTCOME_UNEXECUTED == 0
OUTCOME_EXEC_ERROR == 1
OUTCOME_COMPLETED == 2
OUTCOME_PP_ERROR == -1
OUTCOME_QA_FAILED == -2
OUTCOME_QA_PASSED == -3

\* v under the name the operator K gives it: a local assignment.
With(v, K(_)) == K(v)

\* ------------------------------------------------------------- exceptions
Err(cls, has, tr, uid) ==
    [cls |-> cls, has_to_raise |-> has, to_raise |-> tr, uid |-> uid]

NoErr == Err("none", FALSE, FALSE, 0)

\* A faulty InternalError that asks to be raised on exit; C36 must tell it
\* from the real one.
InternalError_raisable(uid) == Err("InternalError", TRUE, TRUE, uid)

\* snowmobile.core.errors.Error: to_raise defaults to False.
InternalError(uid) == Err("InternalError", TRUE, FALSE, uid)

\* Python built-ins raised by the interpreter: no `to_raise` attribute.
BuiltinError(cls, uid) == Err(cls, FALSE, FALSE, uid)

db_errors == {"DatabaseError"}
pp_errors == {"StatementPostProcessingError"}
DERIVED_FAILURE_MAPPING == {"QADiffFailure", "QAEmptyFailure"}
QA_ANCHORS == {"qa-diff", "qa-empty"}

\* ------------------------------------------------------- ExceptionHandler
NewHandler == [ctx_id |-> None, by_ctx |-> <<>>, in_context |-> FALSE,
               outcome |-> None]

\* A faulty set() that installs a context id without looking for it in
\* by_ctx; C14 must tell it from the real one.
ExceptionHandler_set_reusing(h, ctx_id, in_context, outcome, now) ==
    LET new_id == IF ctx_id = FreshCtx THEN now ELSE ctx_id
        ids    == DOMAIN h.by_ctx \cup {new_id}
    IN [h |-> [ctx_id     |-> IF ctx_id # None THEN new_id ELSE h.ctx_id,
               by_ctx     |-> IF ctx_id # None
                              THEN [c \in ids |-> IF c = new_id THEN <<>>
                                                  ELSE h.by_ctx[c]]
                              ELSE h.by_ctx,
               in_context |-> IF in_context THEN TRUE ELSE h.in_context,
               outcome    |-> IF outcome # None THEN outcome ELSE h.outcome],
        exc |-> NoErr,
        now |-> IF ctx_id = FreshCtx THEN now + 1 ELSE now]

\* A faulty set() whose id for -1 is a fixed number rather than a reading of
\* the clock; C15 must tell it from the real one.
ExceptionHandler_set_fixed(h, ctx_id, in_context, outcome, now) ==
    ExceptionHandler_set_reusing(h, IF ctx_id = FreshCtx THEN 1 ELSE ctx_id,
                                 in_context, outcome, now)

\* ExceptionHandler.set(ctx_id, in_context, outcome)
ExceptionHandler_set(h, ctx_id, in_context, outcome, now) ==
    IF ctx_id # None /\ ctx_id \in DOMAIN h.by_ctx
    THEN [h |-> h, exc |-> InternalError(now), now |-> now + 1]
    ELSE LET new_id == IF ctx_id = FreshCtx THEN now ELSE ctx_id
             ids    == DOMAIN h.by_ctx \cup {new_id}
         IN [h |-> [ctx_id     |-> IF ctx_id # None THEN new_id ELSE h.ctx_id,
                    by_ctx     |-> IF ctx_id # None
                                   THEN [c \in ids |-> IF c = new_id THEN <<>>
                                                       ELSE h.by_ctx[c]]
                                   ELSE h.by_ctx,
                    in_context |-> IF in_context THEN TRUE ELSE h.in_context,
                    outcome    |-> IF outcome # None THEN outcome
                                   ELSE h.outcome],
             exc |-> NoErr,
             now |-> IF ctx_id = FreshCtx THEN now + 1 ELSE now]

\* ExceptionHandler.reset(ctx_id, in_context, outcome)
ExceptionHandler_reset(h, ctx_id, in_context, outcome) ==
    [ctx_id     |-> IF ctx_id THEN None ELSE h.ctx_id,
     by_ctx     |-> h.by_ctx,
     in_context |-> IF in_context THEN FALSE ELSE h.in_context,
     outcome    |-> IF outcome THEN None ELSE h.outcome]

\* A faulty collect() that keeps only the error it is given; C16 must tell
\* it from the real one.
ExceptionHandler_collect_replacing(h, e, now) ==
    IF h.ctx_id = None
    THEN [h |-> h, exc |-> InternalError(now), now |-> now + 1,
          returns_self |-> FALSE]
    ELSE [h |-> [h EXCEPT !.by_ctx =
                    [c \in DOMAIN h.by_ctx \cup {h.ctx_id} |->
                        IF c = h.ctx_id THEN [t \in {now} |-> e]
                        ELSE h.by_ctx[c]]],
          exc |-> NoErr, now |-> now + 1, returns_self |-> FALSE]

\* ExceptionHandler.collect(e): stores e under the current context, keyed by
\* time_ns(); raises InternalError (from `current`) when ctx_id is None.
\* The method has no return statement: returns_self is what a caller gets.
ExceptionHandler_collect(h, e, now) ==
    IF h.ctx_id = None
    THEN [h |-> h, exc |-> InternalError(now), now |-> now + 1,
          returns_self |-> FALSE]
    ELSE LET current == IF h.ctx_id \in DOMAIN h.by_ctx
                        THEN h.by_ctx[h.ctx_id] ELSE <<>>
             stored  == [t \in DOMAIN current \cup {now} |->
                            IF t = now THEN e ELSE current[t]]
             ids     == DOMAIN h.by_ctx \cup {h.ctx_id}
         IN [h |-> [h EXCEPT !.by_ctx =
                       [c \in ids |-> IF c = h.ctx_id THEN stored
                                      ELSE h.by_ctx[c]]],
             exc |-> NoErr, now |-> now + 1, returns_self |-> FALSE]

\* A set of integers as the sequence of its elements, largest first
\* (sorted(seen, reverse=True)).
RECURSIVE SortedDesc(_)
SortedDesc(S) ==
    IF S = {} THEN <<>>
    ELSE LET m == CHOOSE x \in S : \A y \in S : y <= x
         IN <<m>> \o SortedDesc(S \ {m})

\* ExceptionHandler.by_tmstmp
ExceptionHandler_by_tmstmp(h) ==
    LET keys == UNION {DOMAIN h.by_ctx[c] : c \in DOMAIN h.by_ctx}
    IN [t \in keys |->
          LET c == CHOOSE c \in DOMAIN h.by_ctx : t \in DOMAIN h.by_ctx[c]
          IN h.by_ctx[c][t]]

\* The filters of ExceptionHandler._query applied to the ledger to_consider.
ExceptionHandler_query_in(to_consider, of_type, to_raise, now) ==
    IF to_raise # "None"
       /\ \E t \in DOMAIN to_consider : ~to_consider[t].has_to_raise
    THEN [keys |-> <<>>, src |-> to_consider,
          exc |-> BuiltinError("AttributeError", now), now |-> now]
    ELSE [keys |-> SortedDesc(
                     {t \in DOMAIN to_consider :
                        /\ of_type # {} => to_consider[t].cls \in of_type
                        /\ to_raise # "None" =>
                              to_consider[t].to_raise = (to_raise = "True")}),
          src |-> to_consider, exc |-> NoErr, now |-> now]

\* ExceptionHandler._query(of_type, to_raise, from_ctx, all_time).
\* of_type: a set of class names ({} for None); to_raise: "True", "False" or
\* "None".  Result: the matching timestamps, most recent first, the ledger
\* they index, and the exception the lookup itself raises, if any.
ExceptionHandler_query(h, of_type, to_raise, from_ctx, all_time, now) ==
    IF all_time
    THEN ExceptionHandler_query_in(ExceptionHandler_by_tmstmp(h), of_type,
                                   to_raise, now)
    ELSE IF (IF from_ctx # None THEN from_ctx ELSE h.ctx_id) \notin DOMAIN h.by_ctx
    THEN [keys |-> <<>>, src |-> <<>>,
          exc |-> BuiltinError("KeyError", now), now |-> now]
    ELSE ExceptionHandler_query_in(
             h.by_ctx[IF from_ctx # None THEN from_ctx ELSE h.ctx_id],
             of_type, to_raise, now)

\* ExceptionHandler.seen(...)
ExceptionHandler_seen(h, of_type, to_raise, now) ==
    With(ExceptionHandler_query(h, of_type, to_raise, None, FALSE, now),
         LAMBDA q : [val |-> Len(q.keys) > 0, exc |-> q.exc, now |-> q.now])

\* ExceptionHandler.get(..., last, first): val is the error returned; is_dict
\* tells that the (possibly empty) dictionary of matches was returned instead.
ExceptionHandler_get(h, of_type, to_raise, last, first, now) ==
    With(ExceptionHandler_query(h, of_type, to_raise, None, FALSE, now),
         LAMBDA q :
       IF q.exc # NoErr
       THEN [val |-> NoErr, is_dict |-> FALSE, exc |-> q.exc, now |-> q.now,
             matches |-> <<>>]
       ELSE IF last /\ Len(q.keys) = 0
       THEN [val |-> NoErr, is_dict |-> FALSE, exc |-> InternalError(now),
             now |-> now + 1, matches |-> <<>>]
       ELSE IF (last \/ first) /\ Len(q.keys) > 0
       THEN [val |-> q.src[q.keys[IF last THEN 1 ELSE Len(q.keys)]],
             is_dict |-> FALSE, exc |-> NoErr, now |-> now, matches |-> <<>>]
       ELSE [val |-> NoErr, is_dict |-> TRUE, exc |-> NoErr, now |-> now,
             matches |-> [j \in DOMAIN q.keys |->
                            [t |-> q.keys[j], e |-> q.src[q.keys[j]]]]])

\* ------------------------------------------------------------ script text
\* The statements of the script under analysis, in source order: a tagged
\* qa-empty check, a select, a tagged qa-diff check, a create-table; longer
\* scripts repeat the pattern.  tag holds the five identity components
\* (Configuration.SCOPE_ATTRIBUTES) and kind the class Script._add_statement
\* instantiates for the anchor.
SCOPE_ATTRIBUTES == {"kw", "obj", "desc", "anchor", "nm"}

Templates == <<
    [kind |-> "empty",
     tag  |-> [kw |-> "qa-empty", obj |-> "unknown", desc |-> "verify empty",
               anchor |-> "qa-empty", nm |-> "qa-empty~verify empty"]],
    [kind |-> "base",
     tag  |-> [kw |-> "select", obj |-> "unknown", desc |-> "sample",
               anchor |-> "select data", nm |-> "select data~sample"]],
    [kind |-> "diff",
     tag  |-> [kw |-> "qa-diff", obj |-> "unknown", desc |-> "compare totals",
               anchor |-> "qa-diff", nm |-> "qa-diff~compare totals"]],
    [kind |-> "base",
     tag  |-> [kw |-> "create", obj |-> "table", desc |-> "sample",
               anchor |-> "create table", nm |-> "create table~sample"]] >>

Sids == 1..NumStatements
Source == [i \in Sids |-> Templates[((i - 1) % Len(Templates)) + 1]]

\* Patterns a caller passes to Script.filter in this model.
Patterns == {"select", "qa", "qa-empty", "verify", "sample"}

\* a is a proper substring of b, for the strings above.
ProperSubstring ==
    { <<"qa", "qa-empty">>, <<"qa", "qa-diff">>,
      <<"qa", "qa-empty~verify empty">>, <<"qa", "qa-diff~compare totals">>,
      <<"qa-empty", "qa-empty~verify empty">>,
      <<"select", "select data">>, <<"select", "select data~sample">>,
      <<"verify", "verify empty">>, <<"verify", "qa-empty~verify empty">>,
      <<"sample", "select data~sample">>, <<"sample", "create table~sample">>,
      <<"qa-diff", "qa-diff~compare totals">>,
      <<"create", "create table">>, <<"create", "create table~sample">>,
      <<"verify empty", "qa-empty~verify empty">>,
      <<"compare totals", "qa-diff~compare totals">>,
      <<"select data", "select data~sample">>,
      <<"create table", "create table~sample">>,
      <<"table", "create table">>, <<"table", "create table~sample">>,
      <<"select", "select data~Sample">>,
      <<"select data", "select data~Sample">>,
      <<"Sample", "select data~Sample">> }

\* re.findall(a, b) is non-empty for literal a: a occurs in b.
Occurs(a, b) == a = b \/ <<a, b>> \in ProperSubstring

\* ------------------------------------------------------------------ Scope
\* A filter's scope arguments: for "incl" and "excl", per component, a set of
\* patterns; the empty set is an argument that was not passed.
EmptyScope == [typ \in {"incl", "excl"} |-> [c \in SCOPE_ATTRIBUTES |-> {}]]

\* Scope.matches_patterns: base occurs in a pattern (escaped), or a pattern
\* matches inside base (unescaped).
Scope_matches_patterns(base, patterns) ==
    \E p \in patterns : Occurs(base, p) \/ Occurs(p, base)

\* str.lower() on the strings of this model.
Lower(s) ==
    IF s = "Sample" THEN "sample"
    ELSE IF s = "select data~Sample" THEN "select data~sample"
    ELSE s

\* Scope.eval without its exclusion test.
Scope_eval_incl_only(base, component, kwargs) ==
    Scope_matches_patterns(Lower(base),
                           IF kwargs["incl"][component] # {}
                           THEN kwargs["incl"][component] ELSE {base})

\* Scope.__init__ + Scope.parse_kwargs + Scope.eval for the scope of one
\* component: self.base is base.lower(), the fallback for the inclusion
\* patterns is [base] as given and for the exclusion patterns [].
Scope_eval(base, component, kwargs) ==
    LET incl == IF kwargs["incl"][component] # {}
                THEN kwargs["incl"][component] ELSE {base}
        excl == kwargs["excl"][component]
    IN /\ Scope_matches_patterns(Lower(base), incl)
       /\ ~Scope_matches_patterns(Lower(base), excl)

\* Tag.scope(**kwargs) of a tag with these components.
Tag_scope_of(tag, kwargs) ==
    \A c \in SCOPE_ATTRIBUTES : Scope_eval(tag[c], c, kwargs)

\* Tag.scope(**kwargs): the statement's new is_included.
Tag_scope(sid, kwargs) == Tag_scope_of(Source[sid].tag, kwargs)

\* -------------------------------------------------------------- Statement
\* results: "blank" is the DataFrame() a statement is built with; a driver
\* call returns "empty" (no rows), "equal" / "differ" (rows whose partitions
\* agree / disagree within tolerance) or "nopart" (rows without the
\* partition column).
DriverResults == {"empty", "equal", "differ", "nopart"}

NewStatement(i) ==
    [_index |-> i, index |-> i, is_included |-> TRUE, e |-> NewHandler,
     _outcome |-> OUTCOME_UNEXECUTED, outcome |-> TRUE, executed |-> FALSE,
     results |-> "blank", start_time |-> 0, end_time |-> 0,
     execution_time |-> 0, otrace |-> <<OUTCOME_UNEXECUTED>>]

\* Statement.is_derived
Statement_is_derived(sid) == Source[sid].tag.anchor \in QA_ANCHORS

\* Statement.set_state(index, ctx_id, in_context, filters); in_context is
\* "None", "True" or "False"; has_filters tells a non-empty dict was passed.
Statement_set_state(sid, s, index, ctx_id, in_context, has_filters, filters, now) ==
    With(IF ctx_id # None THEN ExceptionHandler_set(s.e, ctx_id, FALSE, None, now)
         ELSE [h |-> s.e, exc |-> NoErr, now |-> now],
         LAMBDA r1 :
       IF r1.exc # NoErr
       THEN [s |-> [s EXCEPT !.index = IF index # None THEN index ELSE s.index],
             exc |-> r1.exc, now |-> r1.now]
       ELSE [s |-> [s EXCEPT
                      !.index = IF index # None THEN index ELSE s.index,
                      !.e = IF in_context # "None"
                            THEN ExceptionHandler_set(r1.h, None,
                                     in_context = "True", None, r1.now).h
                            ELSE r1.h,
                      !.is_included = IF has_filters THEN Tag_scope(sid, filters)
                                      ELSE s.is_included],
             exc |-> NoErr, now |-> r1.now])

\* Statement.reset(index, ctx_id, in_context, scope)
Statement_reset(sid, s, index, ctx_id, in_context, scope) ==
    [s EXCEPT !.index = IF index THEN s._index ELSE s.index,
              !.e = ExceptionHandler_reset(s.e, ctx_id, in_context, FALSE),
              !.is_included = IF scope THEN Tag_scope(sid, EmptyScope)
                              ELSE s.is_included]

\* Statement.start()
Statement_start(s, now) == [s EXCEPT !.start_time = now]

\* A faulty Statement.end() that forgets the executed mark; C7 must tell it
\* from the real one.
Statement_end_unmarked(s, now) ==
    [s EXCEPT !._outcome = OUTCOME_COMPLETED, !.outcome = TRUE,
              !.end_time = now, !.execution_time = now - s.start_time,
              !.otrace = Append(s.otrace, OUTCOME_COMPLETED)]

\* Statement.end(): the end_time read is the clock value `now`.
Statement_end(s, now) ==
    [s EXCEPT !._outcome = OUTCOME_COMPLETED, !.outcome = TRUE,
              !.executed = TRUE, !.end_time = now,
              !.execution_time = now - s.start_time,
              !.otrace = Append(s.otrace, OUTCOME_COMPLETED)]

\* Statement._exception_collector(e, _id): called by the QA classes; the
\* method itself is not in the sources.  Per the specification: the error is
\* collected into the statement's ledger and the outcome code becomes _id.
Statement_exception_collector(s, e, _id, now) ==
    With(ExceptionHandler_collect(s.e, e, now), LAMBDA c :
       [s |-> [s EXCEPT !.e = c.h, !._outcome = _id,
                        !.otrace = Append(s.otrace, _id)],
        now |-> c.now])

\* QA.set_outcome()
QA_set_outcome(sid, s, now) ==
    IF s._outcome \in {OUTCOME_PP_ERROR, OUTCOME_EXEC_ERROR}
    THEN [s |-> s, now |-> now]
    ELSE IF s.outcome
    THEN [s |-> [s EXCEPT !._outcome = OUTCOME_QA_PASSED,
                          !.otrace = Append(s.otrace, OUTCOME_QA_PASSED)],
          now |-> now]
    ELSE LET cls == IF Source[sid].tag.anchor = "qa-empty"
                    THEN "QAEmptyFailure" ELSE "QADiffFailure"
         IN Statement_exception_collector(
                s, Err(cls, TRUE, TRUE, now), OUTCOME_QA_FAILED, now + 1)

\* DataFrame.empty
IsEmpty(results) == results \in {"blank", "empty"}

\* A faulty Empty.process() that passes whatever the results; C10 must tell
\* it from the real one.
Empty_process_always_passes(sid, s, now) ==
    QA_set_outcome(sid, [s EXCEPT !.outcome = TRUE], now)

\* Empty.process()
Empty_process(sid, s, now) ==
    QA_set_outcome(sid, [s EXCEPT !.outcome = IsEmpty(s.results)], now)

\* The n post-processing errors Diff.split_cols / Diff.process hand to
\* _exception_collector(_id=-1), one after the other.
RECURSIVE Diff_collect_pp(_, _, _)
Diff_collect_pp(s, n, now) ==
    IF n = 0 THEN [s |-> s, now |-> now]
    ELSE With(Statement_exception_collector(
                  s, Err("StatementPostProcessingError", TRUE, FALSE, now),
                  OUTCOME_PP_ERROR, now + 1),
              LAMBDA r : Diff_collect_pp(r.s, n - 1, r.now))

\* Post-processing errors Diff.process meets for a result: no index, no
\* comparison and no partition column in a blank frame (set_index then
\* raises); a missing partition column, then the failed partitioning; fewer
\* than two partitions in a frame without rows; no index column left in a
\* frame an earlier process() already indexed in place.
Diff_pp_errors(results) ==
    CASE results = "blank"   -> 3
      [] results = "nopart"  -> 2
      [] results = "empty"   -> 1
      [] results = "indexed" -> 1
      [] OTHER               -> 0

\* Diff.process(): results.set_index(inplace=True) leaves the frame indexed.
Diff_process(sid, s, now) ==
    With(Diff_collect_pp([s EXCEPT !.outcome = FALSE],
                         Diff_pp_errors(s.results), now),
         LAMBDA r :
       QA_set_outcome(
           sid,
           [r.s EXCEPT !.outcome = /\ Diff_pp_errors(s.results) = 0
                                   /\ r.s._outcome # OUTCOME_PP_ERROR
                                   /\ s.results = "equal",
                       !.results = IF s.results = "blank" THEN "blank"
                                   ELSE "indexed"],
           r.now))

\* Statement.process() and its overrides
Statement_process(sid, s, now) ==
    CASE Source[sid].kind = "empty" -> Empty_process(sid, s, now)
      [] Source[sid].kind = "diff"  -> Diff_process(sid, s, now)
      [] OTHER                      -> [s |-> s, now |-> now]

\* The exception the driver raises: connection.py tags it with
\* to_raise = (on_error != "c") for its own on_error, which Statement.run
\* never passes.
DriverError(now) == Err("DatabaseError", TRUE, TRUE, now)

\* The try / except clauses of Statement.run: the driver call, and the
\* handling of a driver error.  s has start() applied already.
Statement_run_query(s, drv, now) ==
    IF drv # "error"
    THEN With(Statement_end([s EXCEPT !.results = drv], now),
              LAMBDA s2 :
            [s |-> [s2 EXCEPT !.e = ExceptionHandler_set(
                                       s2.e, None, FALSE, OUTCOME_COMPLETED,
                                       now + 1).h],
             exc |-> NoErr, now |-> now + 1])
    ELSE With(ExceptionHandler_collect(s.e, DriverError(now), now),
              LAMBDA c :
            IF c.exc # NoErr THEN [s |-> s, exc |-> c.exc, now |-> c.now]
            ELSE IF c.returns_self
            THEN [s |-> [s EXCEPT !.e = ExceptionHandler_set(
                                          c.h, None, FALSE, OUTCOME_EXEC_ERROR,
                                          c.now).h],
                  exc |-> NoErr, now |-> c.now]
            ELSE [s |-> [s EXCEPT !.e = c.h],
                  exc |-> BuiltinError("AttributeError", c.now), now |-> c.now])

\* The try / except / finally block of Statement.run: the query of an
\* included statement, then the post-processing unless the handler's outcome
\* is 1; exc is the exception in flight when the block is left, queried
\* tells the driver was called and processed counts the process() calls.
Statement_run_try(sid, s, drv, now) ==
    With(IF s.is_included
         THEN Statement_run_query(Statement_start(s, now), drv, now + 1)
         ELSE [s |-> s, exc |-> NoErr, now |-> now],
         LAMBDA ok :
       IF ok.s.e.outcome # OUTCOME_EXEC_ERROR
       THEN With(Statement_process(sid, ok.s, ok.now), LAMBDA fin :
               [s |-> fin.s, exc |-> ok.exc, now |-> fin.now,
                queried |-> s.is_included, processed |-> 1])
       ELSE [s |-> ok.s, exc |-> ok.exc, now |-> ok.now,
             queried |-> s.is_included, processed |-> 0])

\* `raise self.e.get(of_type=types, to_raise=True, first=True)`: what the
\* statement raises; an empty dictionary is no exception, raising it is a
\* TypeError.
Statement_raise_first(s, types, now) ==
    With(ExceptionHandler_get(s.e, types, "True", FALSE, TRUE, now), LAMBDA g :
       IF g.exc # NoErr THEN g.exc
       ELSE IF g.is_dict THEN BuiltinError("TypeError", now)
       ELSE g.val)

\* Faulty checks after the try block that let a failed validation pass
\* whatever on_failure is; C11 must tell them from the real ones.
Statement_run_checks_lenient(sid, s, on_error, on_exception, on_failure, now) ==
    With(ExceptionHandler_seen(s.e, db_errors, "True", now), LAMBDA seen_db :
       IF seen_db.exc # NoErr THEN seen_db.exc
       ELSE IF seen_db.val /\ on_error # "c"
       THEN Statement_raise_first(s, db_errors, now)
       ELSE NoErr)

\* The three raise-or-continue checks that follow the try block.
Statement_run_checks(sid, s, on_error, on_exception, on_failure, now) ==
    With(ExceptionHandler_seen(s.e, db_errors, "True", now), LAMBDA seen_db :
       IF seen_db.exc # NoErr THEN seen_db.exc
       ELSE IF seen_db.val /\ on_error # "c"
       THEN Statement_raise_first(s, db_errors, now)
       ELSE IF ExceptionHandler_seen(s.e, pp_errors, "True", now).val
               /\ on_exception # "c"
       THEN Statement_raise_first(s, pp_errors, now)
       ELSE IF Statement_is_derived(sid) /\ ~s.outcome /\ on_failure # "c"
       THEN Statement_raise_first(s, DERIVED_FAILURE_MAPPING, now)
       ELSE NoErr)

\* Statement.run(on_error, on_exception, on_failure, ctx_id) with the
\* driver's answer drv: a member of DriverResults, or "error".
Statement_run(sid, s, on_error, on_exception, on_failure, ctx_id, drv, now) ==
    With(ExceptionHandler_set(s.e, IF ctx_id # None THEN ctx_id ELSE FreshCtx,
                              FALSE, None, now),
         LAMBDA r0 :
       IF r0.exc # NoErr
       THEN [s |-> [s EXCEPT !.otrace = <<s._outcome>>], exc |-> r0.exc,
             now |-> r0.now, queried |-> FALSE, processed |-> 0]
       ELSE With(Statement_run_try(
                     sid, [s EXCEPT !.e = r0.h, !.otrace = <<s._outcome>>],
                     drv, r0.now),
                 LAMBDA t :
               IF t.exc # NoErr THEN t
               ELSE [s |-> t.s,
                     exc |-> Statement_run_checks(sid, t.s, on_error,
                                 on_exception, on_failure, t.now),
                     now |-> t.now, queried |-> t.queried,
                     processed |-> t.processed]))

\* ----------------------------------------------------------------- Script
\* A script is the record [st, statements_all, filters, filtered, e]:
\* st maps a statement's identity (its source position) to the statement
\* object, statements_all is the dictionary _statements_all as the sequence
\* of its items, filters the dictionary of saved scopes as the sequence of
\* its items, e the script's ExceptionHandler.  Script.__init__ passes the
\* handler mirroring arguments the ExceptionHandler class does not define;
\* the handler is the one that class constructs.
NewScript ==
    [st             |-> [i \in Sids |-> NewStatement(i)],
     statements_all |-> [i \in Sids |-> [key |-> i, sid |-> i]],
     filters        |-> <<[id |-> 0, scope |-> EmptyScope]>>,
     filtered       |-> FALSE,
     e              |-> NewHandler]

\* sorted(S)
RECURSIVE SortedAsc(_)
SortedAsc(S) ==
    IF S = {} THEN <<>>
    ELSE LET m == CHOOSE x \in S : \A y \in S : x <= y
         IN <<m>> \o SortedAsc(S \ {m})

\* {s.index: s for s in items} as the sequence of its items sorted by key;
\* for an index several items carry, the dictionary keeps the last of them.
ByIndex(items, st) ==
    With(SortedAsc({st[items[j].sid].index : j \in DOMAIN items}), LAMBDA keys :
       [j \in DOMAIN keys |->
          [key |-> keys[j],
           sid |-> items[CHOOSE a \in DOMAIN items :
                           /\ st[items[a].sid].index = keys[j]
                           /\ \A b \in DOMAIN items :
                                 st[items[b].sid].index = keys[j] => b <= a].sid]])

\* The renumbering of Script.statements: each item of the sorted dictionary
\* gets its position as key, and its statement that position as index.
Renumbered(sc, sorted) ==
    [sc   |-> [sc EXCEPT !.st =
                 [i \in Sids |->
                    IF \E j \in DOMAIN sorted : sorted[j].sid = i
                    THEN [sc.st[i] EXCEPT !.index =
                            CHOOSE j \in DOMAIN sorted : sorted[j].sid = i]
                    ELSE sc.st[i]]],
     view |-> [j \in DOMAIN sorted |-> [key |-> j, sid |-> sorted[j].sid]]]

\* Script.statements (property): the visible statements as the sequence of
\* the returned dictionary's items, and the script after the renumbering.
Script_statements(sc) ==
    IF ~sc.filtered THEN [sc |-> sc, view |-> sc.statements_all]
    ELSE Renumbered(sc, ByIndex(SelectSeq(sc.statements_all,
                                          LAMBDA p : sc.st[p.sid].is_included),
                                sc.st))

\* batch_reset(**kwargs) of Script.reset
Script_batch_reset(sc, index, scope) ==
    [i \in Sids |->
       IF \E j \in DOMAIN sc.statements_all : sc.statements_all[j].sid = i
       THEN Statement_reset(i, sc.st[i], index, FALSE, FALSE, scope)
       ELSE sc.st[i]]

\* Script.reset(index, ctx_id, in_context, scope, _filter)
Script_reset(sc, index, ctx_id, in_context, scope, _filter) ==
    With(IF index
         THEN With(Script_batch_reset(sc, TRUE, FALSE), LAMBDA st1 :
                 [sc EXCEPT !.st = st1,
                            !.statements_all = ByIndex(sc.statements_all, st1)])
         ELSE sc,
         LAMBDA sc1 :
       [st             |-> IF scope THEN Script_batch_reset(sc1, FALSE, TRUE)
                           ELSE sc1.st,
        statements_all |-> sc1.statements_all,
        filters        |-> sc1.filters,
        filtered       |-> IF _filter THEN ~sc1.filtered ELSE sc1.filtered,
        e              |-> IF in_context
                           THEN ExceptionHandler_set(
                                    ExceptionHandler_reset(sc1.e, ctx_id, FALSE,
                                                           FALSE),
                                    None, FALSE, None, 0).h
                           ELSE ExceptionHandler_reset(sc1.e, ctx_id, FALSE,
                                                       FALSE)])

\* Keys of Script.filters
FilterIds(filters) == {filters[j].id : j \in DOMAIN filters}

\* Script._latest_scope_id
Script_latest_scope_id(filters) == filters[Len(filters)].id

\* Script._scope_from_id(_id, pop): the scope and the filters left.
Script_scope_from_id(filters, _id, pop) ==
    IF _id \notin FilterIds(filters)
    THEN [scope |-> EmptyScope, filters |-> filters]
    ELSE [scope   |-> (CHOOSE f \in {filters[j] : j \in DOMAIN filters} :
                          f.id = _id).scope,
          filters |-> IF pop THEN SelectSeq(filters, LAMBDA f : f.id # _id)
                      ELSE filters]

\* Script._update_scope_script(_id, **kwargs) for a truthy _id
Script_update_scope_script_id(filters, id, kwargs) ==
    With(IF id \in FilterIds(filters)
         THEN Script_scope_from_id(filters, id, TRUE)
         ELSE [scope |-> EmptyScope, filters |-> filters],
         LAMBDA r :
       With([typ \in {"incl", "excl"} |->
               [c \in SCOPE_ATTRIBUTES |-> r.scope[typ][c] \cup kwargs[typ][c]]],
            LAMBDA merged :
          [filters |-> Append(r.filters, [id |-> id, scope |-> merged]),
           scope   |-> merged]))

\* Script._update_scope_script(_id, **kwargs)
Script_update_scope_script(filters, _id, kwargs) ==
    Script_update_scope_script_id(
        filters, IF _id # None THEN _id ELSE Len(filters) + 1, kwargs)

\* Script._update_scope_statements(scope_to_set), from the j-th item on.
RECURSIVE Script_update_scope_statements(_, _, _, _)
Script_update_scope_statements(sc, scope_to_set, j, now) ==
    IF j > Len(sc.statements_all) THEN [sc |-> sc, exc |-> NoErr, now |-> now]
    ELSE With(Statement_set_state(
                  sc.statements_all[j].sid, sc.st[sc.statements_all[j].sid],
                  None, sc.e.ctx_id, "True", scope_to_set # EmptyScope,
                  scope_to_set, now),
              LAMBDA r :
            IF r.exc # NoErr
            THEN [sc |-> [sc EXCEPT !.st[sc.statements_all[j].sid] = r.s],
                  exc |-> r.exc, now |-> r.now]
            ELSE Script_update_scope_statements(
                     [sc EXCEPT !.st[sc.statements_all[j].sid] = r.s],
                     scope_to_set, j + 1, r.now))

\* Script._update_scope(as_id, from_id, **kwargs)
Script_update_scope(sc, as_id, from_id, kwargs, now) ==
    With(Script_update_scope_script(
             sc.filters, IF from_id # None THEN from_id ELSE as_id,
             IF from_id # None
             THEN Script_scope_from_id(sc.filters, from_id, FALSE).scope
             ELSE kwargs),
         LAMBDA latest :
       Script_update_scope_statements([sc EXCEPT !.filters = latest.filters],
                                      latest.scope, 1, now))

\* Script.filter(...), from the call to the `yield`: the argument checks,
\* the new context, the scope update and reset(_filter=True).  exc is what
\* the code before the yield raises; entered tells the try block was reached.
Script_filter_enter(sc, as_id, from_id, kwargs, last, now) ==
    IF (from_id # None /\ as_id # None)
       \/ (from_id # None /\ from_id \notin FilterIds(sc.filters))
    THEN [sc |-> sc, exc |-> BuiltinError("ValueError", now), now |-> now,
          entered |-> FALSE]
    ELSE With(ExceptionHandler_set(sc.e, now, TRUE, None, now + 1), LAMBDA r0 :
       IF r0.exc # NoErr
       THEN [sc |-> sc, exc |-> r0.exc, now |-> r0.now, entered |-> TRUE]
       ELSE With(Script_update_scope(
                     [sc EXCEPT !.e = r0.h],
                     IF last THEN None ELSE as_id,
                     IF last THEN Script_latest_scope_id(sc.filters) ELSE from_id,
                     kwargs, r0.now),
                 LAMBDA r1 :
               IF r1.exc # NoErr
               THEN [sc |-> r1.sc, exc |-> r1.exc, now |-> r1.now,
                     entered |-> TRUE]
               ELSE [sc |-> Script_reset(r1.sc, FALSE, FALSE, FALSE, FALSE, TRUE),
                     exc |-> NoErr, now |-> r1.now, entered |-> TRUE]))

\* The finally clause of Script.filter
Script_filter_finally(sc, now) ==
    With(ExceptionHandler_seen(sc.e, {}, "True", now), LAMBDA seen :
       IF seen.exc # NoErr THEN [sc |-> sc, exc |-> seen.exc, now |-> seen.now]
       ELSE With(IF seen.val
                 THEN ExceptionHandler_get(sc.e, {}, "True", TRUE, FALSE, seen.now)
                 ELSE [val |-> NoErr, is_dict |-> FALSE, exc |-> NoErr,
                       now |-> seen.now],
                 LAMBDA to_raise :
               IF to_raise.exc # NoErr
               THEN [sc |-> sc, exc |-> to_raise.exc, now |-> to_raise.now]
               ELSE [sc  |-> Script_reset(sc, TRUE, TRUE, TRUE, TRUE, TRUE),
                     exc |-> to_raise.val, now |-> to_raise.now]))

\* Script.filter(...), from the `yield` on: the except clause when the body
\* threw `thrown` into the generator, then the finally clause.  exc is the
\* exception that leaves the context manager (NoErr: none, a thrown one is
\* swallowed by the `return self` of the finally clause).
Script_filter_exit(sc, thrown, now) ==
    IF thrown = NoErr THEN Script_filter_finally(sc, now)
    ELSE With(ExceptionHandler_collect(sc.e, thrown, now), LAMBDA c :
            Script_filter_finally([sc EXCEPT !.e = c.h], c.now))

\* Script.excluded (property): the items of _statements_all whose key is
\* not a key of self.statements, and the script after that read.
Script_excluded(sc) ==
    With(Script_statements(sc), LAMBDA v :
       [sc |-> v.sc,
        excluded |-> SelectSeq(sc.statements_all,
                        LAMBDA p : \A j \in DOMAIN v.view :
                                      v.view[j].key # p.key)])

\* Script.contents(by_index=True, ignore_scope=ignore_scope, markers=False)
Script_contents(sc, ignore_scope) ==
    IF ignore_scope THEN Script_statements(sc)
    ELSE [sc |-> sc, view |-> sc.statements_all]

\* Script._id(_id) for an integer _id
Script_id(sc, _id) ==
    IF _id > 0 THEN [sc |-> sc, index |-> _id]
    ELSE With(Script_statements(sc), LAMBDA v :
            [sc |-> v.sc, index |-> Len(v.view) + _id + 1])

\* Script.statement(_id) once _id is an index: sid is the statement returned.
Script_statement_at(sc, index, now) ==
    With(Script_statements(sc), LAMBDA v :
       IF \E j \in DOMAIN v.view : v.view[j].key = index
       THEN [sc |-> v.sc, exc |-> NoErr, now |-> now,
             sid |-> v.view[CHOOSE j \in DOMAIN v.view :
                               v.view[j].key = index].sid]
       ELSE [sc |-> v.sc, exc |-> Err("StatementNotFoundError", TRUE, FALSE, now),
             now |-> now + 1, sid |-> None])

\* Script.statement(_id)
Script_statement(sc, _id, now) ==
    With(Script_id(sc, _id), LAMBDA r : Script_statement_at(r.sc, r.index, now))

\* The tag names of the statements of _statements_all, in its order.
Script_names(sc) ==
    [j \in DOMAIN sc.statements_all |-> Source[sc.statements_all[j].sid].tag.nm]

\* collections.Counter: how often nm occurs in names from position j on.
RECURSIVE CountOf(_, _, _)
CountOf(names, nm, j) ==
    IF j > Len(names) THEN 0
    ELSE (IF names[j] = nm THEN 1 ELSE 0) + CountOf(names, nm, j + 1)

\* Script.duplicates without its `if cnt > 1`: every name with its count.
Script_duplicates_all(names) ==
    [nm \in {names[j] : j \in DOMAIN names} |-> CountOf(names, nm, 1)]

\* Script.duplicates: {tag: cnt for tag, cnt in counted.items() if cnt > 1}
Script_duplicates(names) ==
    [nm \in {names[j] : j \in {k \in DOMAIN names :
                                  CountOf(names, names[k], 1) > 1}} |->
        CountOf(names, nm, 1)]

\* Script.contents(by_index=False, validate=validate) over _statements_all:
\* by maps a name to the position of the last statement that carries it.
Script_contents_by_name(names, validate, now) ==
    IF validate /\ Len(names) # Cardinality({names[j] : j \in DOMAIN names})
    THEN [by |-> <<>>, exc |-> Err("DuplicateTagError", TRUE, FALSE, now),
          now |-> now + 1]
    ELSE [by |-> [nm \in {names[j] : j \in DOMAIN names} |->
                    CHOOSE j \in DOMAIN names :
                       /\ names[j] = nm
                       /\ \A k \in DOMAIN names : names[k] = nm => k <= j],
          exc |-> NoErr, now |-> now]

\* Script._id(_id) for a string _id: the index of the statement so named.
Script_id_name(sc, names, nm, now) ==
    With(Script_contents_by_name(names, nm \in DOMAIN Script_duplicates(names),
                                 now),
         LAMBDA c :
       IF c.exc # NoErr THEN [exc |-> c.exc, now |-> c.now, index |-> None]
       ELSE IF nm \notin DOMAIN c.by
       THEN [exc |-> BuiltinError("KeyError", now), now |-> now, index |-> None]
       ELSE [exc |-> NoErr, now |-> now,
             index |-> sc.st[sc.statements_all[c.by[nm]].sid].index])

\* An _id argument: an integer k or a string nm.
IntKey(k) == [typ |-> "int", k |-> k, nm |-> ""]
StrKey(nm) == [typ |-> "str", k |-> 0, nm |-> nm]

\* Script.statement(_id) for an integer or a string _id.
Script_statement_of(sc, names, key, now) ==
    IF key.typ = "int" THEN Script_statement(sc, key.k, now)
    ELSE With(Script_id_name(sc, names, key.nm, now), LAMBDA r :
            IF r.exc # NoErr
            THEN [sc |-> sc, exc |-> r.exc, now |-> r.now, sid |-> None]
            ELSE Script_statement_at(sc, r.index, r.now))

\* The try / except of Script._run around the run() of statement sid.
Script_run_statement(sc, sid, on_error, on_exception, on_failure, plan, now) ==
    With(Statement_run(sid, sc.st[sid], on_error, on_exception, on_failure,
                       sc.e.ctx_id, plan[sid], now),
         LAMBDA r :
       IF r.exc = NoErr
       THEN [sc |-> [sc EXCEPT !.st[sid] = r.s], exc |-> NoErr, now |-> r.now,
             ran |-> sid]
       ELSE With(ExceptionHandler_collect(sc.e, r.exc, r.now), LAMBDA c :
               [sc  |-> [sc EXCEPT !.st[sid] = r.s, !.e = c.h],
                exc |-> IF c.exc # NoErr THEN c.exc ELSE r.exc,
                now |-> c.now, ran |-> sid]))

\* Script._run(_id, **kwargs): ran is the statement whose run() was called
\* (None when the lookup raised); plan gives the driver's answer per statement.
Script_run_one(sc, _id, on_error, on_exception, on_failure, plan, now) ==
    With(Script_statement(sc, _id, now), LAMBDA f :
       IF f.exc # NoErr
       THEN [sc |-> f.sc, exc |-> f.exc, now |-> f.now, ran |-> None]
       ELSE Script_run_statement(f.sc, f.sid, on_error, on_exception,
                                 on_failure, plan, f.now))

\* The loop of Script.run over indices_to_execute, from position j on; ran
\* accumulates the statements whose run() was called, in call order.
RECURSIVE Script_run_loop(_, _, _, _, _, _, _, _, _)
Script_run_loop(sc, ids, j, on_error, on_exception, on_failure, plan, ran, now) ==
    IF j > Len(ids) THEN [sc |-> sc, exc |-> NoErr, now |-> now, ran |-> ran]
    ELSE With(Script_run_one(sc, ids[j], on_error, on_exception, on_failure,
                             plan, now),
              LAMBDA r :
            IF r.exc # NoErr
            THEN [sc |-> r.sc, exc |-> r.exc, now |-> r.now,
                  ran |-> IF r.ran # None THEN Append(ran, r.ran) ELSE ran]
            ELSE Script_run_loop(r.sc, ids, j + 1, on_error, on_exception,
                                 on_failure, plan, Append(ran, r.ran), r.now))

\* Script.ids_from_iterable(_id) for _id = None: list(self.statements)
Script_ids_from_iterable(sc) ==
    With(Script_statements(sc), LAMBDA v :
       [sc |-> v.sc, ids |-> [j \in DOMAIN v.view |-> v.view[j].key]])

\* Script.run(...) once the context is set.
Script_run_in(sc, _id, on_error, on_exception, on_failure, plan, now) ==
    IF _id # None
    THEN With(Script_run_one(sc, _id, on_error, on_exception, on_failure, plan,
                             now),
              LAMBDA r :
            [sc |-> r.sc, exc |-> r.exc, now |-> r.now,
             ran |-> IF r.ran # None THEN <<r.ran>> ELSE <<>>])
    ELSE With(Script_ids_from_iterable(sc), LAMBDA l :
            Script_run_loop(l.sc, l.ids, 1, on_error, on_exception, on_failure,
                            plan, <<>>, now))

\* Script.run(_id, on_error, on_exception, on_failure): _id is None (all
\* visible statements) or an integer index.
Script_run(sc, _id, on_error, on_exception, on_failure, plan, now) ==
    IF sc.e.in_context
    THEN Script_run_in(sc, _id, on_error, on_exception, on_failure, plan, now)
    ELSE With(ExceptionHandler_set(sc.e, FreshCtx, FALSE, None, now), LAMBDA r0 :
            Script_run_in([sc EXCEPT !.e = r0.h], _id, on_error, on_exception,
                          on_failure, plan, r0.now))

\* An _id argument of Script.run: None, an integer k, a tuple (lo, hi) or a
\* list of integers.
NoneIds == [typ |-> "none", k |-> 0, lo |-> 0, hi |-> 0, items |-> <<>>]
IntIds(k) == [NoneIds EXCEPT !.typ = "int", !.k = k]
TupleIds(lo, hi) == [NoneIds EXCEPT !.typ = "tuple", !.lo = lo, !.hi = hi]
ListIds(items) == [NoneIds EXCEPT !.typ = "list", !.items = items]

\* Script.ids_from_iterable(_id) for None, a list or a tuple. `not _id`
\* holds for None and for the empty list.
Script_ids_from_iterable_of(sc, _id) ==
    IF _id.typ = "none" \/ (_id.typ = "list" /\ _id.items = <<>>)
    THEN Script_ids_from_iterable(sc)
    ELSE IF _id.typ = "list" THEN [sc |-> sc, ids |-> _id.items]
    ELSE With(IF _id.lo # 0 THEN Script_id(sc, _id.lo)
                            ELSE [sc |-> sc, index |-> 1],
              LAMBDA start :
         With(Script_id(start.sc, _id.hi), LAMBDA stop :
            [sc |-> stop.sc,
             ids |-> [j \in 1..(stop.index + 1 - start.index) |->
                         start.index + j - 1]]))

\* Script.run(_id, ...) once the context is set, for every kind of _id.
Script_run_in_of(sc, _id, on_error, on_exception, on_failure, plan, now) ==
    IF _id.typ = "int"
    THEN Script_run_in(sc, _id.k, on_error, on_exception, on_failure, plan, now)
    ELSE With(Script_ids_from_iterable_of(sc, _id), LAMBDA l :
            Script_run_loop(l.sc, l.ids, 1, on_error, on_exception, on_failure,
                            plan, <<>>, now))

\* Script.run(_id, on_error, on_exception, on_failure) for every kind of _id.
Script_run_of(sc, _id, on_error, on_exception, on_failure, plan, now) ==
    IF sc.e.in_context
    THEN Script_run_in_of(sc, _id, on_error, on_exception, on_failure, plan,
                          now)
    ELSE With(ExceptionHandler_set(sc.e, FreshCtx, FALSE, None, now), LAMBDA r0 :
            Script_run_in_of([sc EXCEPT !.e = r0.h], _id, on_error,
                             on_exception, on_failure, plan, r0.now))

\* -------------------------------------------------------------------- Tag
\* Strings of a tag are kept as sequences of words; a name is an anchor, a
\* description and whether the description delimiter is written between
\* them.
DEF_OBJ == <<"unknown">>
DEF_DESC == "statement"
NoName == [anchor |-> <<>>, sep |-> FALSE, desc |-> <<>>]

\* cfg.sql.generic_anchors.get(kw): the generic anchor of a keyword.
GenericAnchor(kw) == IF kw = <<"select">> THEN <<"select", "data">> ELSE <<>>

\* The generated components (Tag.obj_ge is given, Tag.desc_ge,
\* Tag.anchor_ge, Tag.nm_ge).
Tag_generated(kw_ge, obj_ge, index) ==
    LET desc_ge   == <<DEF_DESC, index>>
        anchor_ge == IF GenericAnchor(kw_ge) # <<>> /\ obj_ge = DEF_OBJ
                     THEN GenericAnchor(kw_ge) ELSE kw_ge \o obj_ge
    IN [kw |-> kw_ge, obj |-> obj_ge, desc |-> desc_ge, anchor |-> anchor_ge,
        nm |-> [anchor |-> anchor_ge, sep |-> TRUE, desc |-> desc_ge]]

\* Tag.__init__(nm_pr, sql, index): part_desc has three items when the
\* name has an anchor, the delimiter and a description; only then the
\* provided components are filled in.
Tag_init(nm_pr, kw_ge, obj_ge, index) ==
    LET ge     == Tag_generated(kw_ge, obj_ge, index)
        struct == nm_pr.anchor # <<>> /\ nm_pr.sep /\ nm_pr.desc # <<>>
        obj_pr == IF struct /\ Len(nm_pr.anchor) > 2
                  THEN Tail(nm_pr.anchor) ELSE <<>>
    IN [kw     |-> IF struct THEN <<nm_pr.anchor[1]>> ELSE ge.kw,
        obj    |-> IF obj_pr # <<>> THEN obj_pr ELSE ge.obj,
        desc   |-> IF struct THEN nm_pr.desc ELSE ge.desc,
        anchor |-> IF struct THEN nm_pr.anchor ELSE ge.anchor,
        nm     |-> IF nm_pr # NoName THEN nm_pr ELSE ge.nm]

\* ------------------------------------------------------------------ state
\* st, statements_all, filters, filtered, e: the script (see NewScript).
\* clock: the value the next time read returns.
\* stack: the open filter contexts, innermost last; a frame keeps the
\*        context id, the snapshot taken just before the entry, the
\*        keyword arguments of the call, whether it had only those, and
\*        the errors run() calls raised in its body and the caller caught.
\* pending: the exception propagating in the body of the innermost open
\*        context (NoErr: none).
\* ev: what the last operation was, with its arguments and results.
VARIABLES st, statements_all, filters, filtered, e, clock, stack, pending, ev

vars == <<st, statements_all, filters, filtered, e, clock, stack, pending, ev>>

Sc == [st |-> st, statements_all |-> statements_all, filters |-> filters,
       filtered |-> filtered, e |-> e]

Becomes(sc) ==
    /\ st' = sc.st
    /\ statements_all' = sc.statements_all
    /\ filters' = sc.filters
    /\ filtered' = sc.filtered
    /\ e' = sc.e

\* What a filter context is to restore: per statement its index and its
\* included flag, the items of _statements_all, and the filtered flag.
Snap(sc) ==
    [index    |-> [i \in Sids |-> sc.st[i].index],
     incl     |-> [i \in Sids |-> sc.st[i].is_included],
     all      |-> sc.statements_all,
     filtered |-> sc.filtered]

\* The to_raise=True errors a handler holds under ctx, earliest first.
RaisableIn(h, ctx) ==
    IF ctx \notin DOMAIN h.by_ctx THEN <<>>
    ELSE LET led == h.by_ctx[ctx]
             ts  == SortedAsc({k \in DOMAIN led :
                                 led[k].has_to_raise /\ led[k].to_raise})
         IN [j \in DOMAIN ts |-> led[ts[j]]]

NoEvent ==
    [op |-> "init", sid |-> None, id |-> None, incl |-> FALSE, drv |-> "none",
     on_error |-> "None", on_exception |-> "None", on_failure |-> "None",
     plan |-> <<>>, raised |-> NoErr, thrown |-> NoErr, depth |-> 0,
     pre |-> Snap(NewScript), before |-> NewStatement(1), view |-> <<>>,
     ran |-> <<>>, cands |-> <<>>, ctx |-> None,
     hbefore |-> NewHandler, arg |-> NoErr, of_type |-> {},
     to_raise |-> "None", last |-> FALSE, first |-> FALSE,
     got |-> [val |-> NoErr, is_dict |-> FALSE, matches |-> <<>>],
     key |-> IntKey(0), found |-> None, names |-> <<>>, dups |-> <<>>,
     ids |-> NoneIds, layout |-> [above |-> <<>>, trailing |-> 0],
     contents |-> <<>>, tag |-> Templates[1].tag, kwargs |-> EmptyScope,
     scoped |-> FALSE, nm_pr |-> NoName,
     sql |-> [kw_ge |-> <<>>, obj_ge |-> <<>>, index |-> "#0"],
     tagged |-> Tag_generated(<<>>, <<>>, "#0"),
     attrs |-> [rel |-> [given |-> FALSE, v |-> 0],
                abs |-> [given |-> FALSE, v |-> 0]],
     partitions |-> <<>>, equal |-> FALSE, queried |-> FALSE,
     processed |-> 0, caught |-> {}, excluded |-> <<>>,
     ignore_scope |-> FALSE, marked |-> {}]

\* ----------------------------------------------------------------- inputs
\* (on_error, on_exception, on_failure) of the run() calls explored.
FlagSets == { <<"None", "None", "None">>, <<"c", "c", "c">>,
              <<"c", "c", "None">>, <<"None", "None", "c">> }
DriverAnswers == DriverResults \cup {"error"}

Kw(typ, c, pats) ==
    [t \in {"incl", "excl"} |->
        [a \in SCOPE_ATTRIBUTES |-> IF t = typ /\ a = c THEN pats ELSE {}]]

\* The filter() calls explored: a plain call with and without keyword
\* arguments, a scope saved under and restored from an id, the last scope,
\* and the two argument errors.
FilterCalls ==
    { [as_id |-> None, from_id |-> None, last |-> FALSE, kwargs |-> EmptyScope],
      [as_id |-> None, from_id |-> None, last |-> FALSE,
       kwargs |-> Kw("incl", "anchor", {"qa"})],
      [as_id |-> None, from_id |-> None, last |-> FALSE,
       kwargs |-> Kw("incl", "kw", {"select"})],
      [as_id |-> 3, from_id |-> None, last |-> FALSE,
       kwargs |-> Kw("excl", "nm", {"verify"})],
      [as_id |-> None, from_id |-> 3, last |-> FALSE, kwargs |-> EmptyScope],
      [as_id |-> None, from_id |-> None, last |-> TRUE, kwargs |-> EmptyScope],
      [as_id |-> 3, from_id |-> 3, last |-> FALSE, kwargs |-> EmptyScope] }

\* The driver's answer per statement, for the Script.run() calls explored:
\* every check passes; the first statement's SQL is invalid; every check
\* fails.
Plans ==
    { [i \in Sids |-> IF Source[i].kind = "diff" THEN "equal" ELSE "empty"],
      [i \in Sids |-> IF i = 1 THEN "error" ELSE "empty"],
      [i \in Sids |-> "differ"] }

Init ==
    /\ st = NewScript.st
    /\ statements_all = NewScript.statements_all
    /\ filters = NewScript.filters
    /\ filtered = NewScript.filtered
    /\ e = NewScript.e
    /\ clock = 1
    /\ stack = <<>>
    /\ pending = NoErr
    /\ ev = NoEvent

\* An exception leaving an operation propagates in the body of the innermost
\* open context, unless there is none or the caller catches it.
Propagates(exc, caught) ==
    IF Len(stack) > 0 /\ ~caught THEN exc ELSE NoErr

\* The open contexts once the caller has caught exc, raised by a run()
\* call in the body of the innermost one.
Catch(exc, caught) ==
    IF Len(stack) > 0 /\ caught /\ exc # NoErr
    THEN [stack EXCEPT ![Len(stack)].caught = @ \cup {exc}]
    ELSE stack

\* ---------------------------------------------------------------- actions
\* What leaves a filter() call whose generator ends before its yield.
NoYield(x) ==
    IF x.exc # NoErr THEN x.exc ELSE BuiltinError("RuntimeError", x.now)

\* `with script.filter(as_id, from_id, **kwargs, last=last):` up to the body.
FilterEnter(as_id, from_id, kwargs, last) ==
    /\ pending = NoErr
    /\ Len(stack) < MaxDepth
    /\ clock < MaxClock
    /\ \E r \in {Script_filter_enter(Sc, as_id, from_id, kwargs, last, clock)} :
       \E event \in {[NoEvent EXCEPT !.op = "enter", !.id = as_id,
                                     !.depth = Len(stack), !.pre = Snap(Sc),
                                     !.kwargs = kwargs]} :
          IF ~r.entered
          THEN /\ UNCHANGED <<st, statements_all, filters, filtered, e, clock,
                              stack>>
               /\ pending' = Propagates(r.exc, FALSE)
               /\ ev' = [event EXCEPT !.raised = r.exc]
          ELSE IF r.exc = NoErr
          THEN /\ Becomes(r.sc)
               /\ clock' = r.now
               /\ stack' = Append(stack,
                                  [ctx |-> r.sc.e.ctx_id, pre |-> Snap(Sc),
                                   kwargs |-> kwargs,
                                   plain |-> as_id = None /\ from_id = None
                                                /\ ~last,
                                   caught |-> {}])
               /\ pending' = NoErr
               /\ ev' = [event EXCEPT !.ctx = r.sc.e.ctx_id]
          ELSE \E x \in {Script_filter_exit(r.sc, r.exc, r.now)} :
               /\ Becomes(x.sc)
               /\ clock' = x.now
               /\ stack' = stack
               /\ pending' = Propagates(NoYield(x), FALSE)
               /\ ev' = [event EXCEPT !.raised = NoYield(x)]

\* The end of the innermost `with` block: its body completed, or raised
\* `pending`.
FilterExit ==
    /\ Len(stack) > 0
    /\ \E top \in {stack[Len(stack)]} :
       \E r \in {Script_filter_exit(Sc, pending, clock)} :
          /\ Becomes(r.sc)
          /\ clock' = r.now
          /\ stack' = SubSeq(stack, 1, Len(stack) - 1)
          /\ pending' = IF Len(stack) > 1 THEN r.exc ELSE NoErr
          /\ ev' = [NoEvent EXCEPT !.op = "exit", !.depth = Len(stack),
                                   !.pre = top.pre, !.ctx = top.ctx,
                                   !.thrown = pending, !.raised = r.exc,
                                   !.cands = RaisableIn(r.sc.e, top.ctx),
                                   !.caught = top.caught]

\* A read of the property script.statements.
Statements ==
    /\ pending = NoErr
    /\ \E r \in {Script_statements(Sc)} :
          /\ Becomes(r.sc)
          /\ ev' = [NoEvent EXCEPT !.op = "statements", !.depth = Len(stack),
                                   !.view = r.view, !.pre = Snap(Sc)]
    /\ UNCHANGED <<clock, stack, pending>>

\* script.run(_id, on_error=, on_exception=, on_failure=)
ScriptRun(_id, on_error, on_exception, on_failure, plan, caught) ==
    /\ pending = NoErr
    /\ clock < MaxClock
    /\ \E r \in {Script_run(Sc, _id, on_error, on_exception, on_failure, plan,
                            clock)} :
          /\ Becomes(r.sc)
          /\ clock' = r.now
          /\ pending' = Propagates(r.exc, caught)
          /\ ev' = [NoEvent EXCEPT !.op = "run", !.id = _id,
                        !.depth = Len(stack), !.on_error = on_error,
                        !.on_exception = on_exception,
                        !.on_failure = on_failure, !.plan = plan,
                        !.raised = r.exc, !.ran = r.ran, !.pre = Snap(Sc),
                        !.view = Script_statements(Sc).view,
                        !.ctx = e.ctx_id]
          /\ stack' = Catch(r.exc, caught)

\* s.run(on_error=, on_exception=, on_failure=) on the statement object sid.
StatementRun(sid, on_error, on_exception, on_failure, drv, caught) ==
    /\ pending = NoErr
    /\ clock < MaxClock
    /\ \E r \in {Statement_run(sid, st[sid], on_error, on_exception,
                               on_failure, None, drv, clock)} :
          /\ st' = [st EXCEPT ![sid] = r.s]
          /\ clock' = r.now
          /\ pending' = Propagates(r.exc, caught)
          /\ ev' = [NoEvent EXCEPT !.op = "srun", !.sid = sid,
                        !.depth = Len(stack), !.incl = st[sid].is_included,
                        !.drv = IF st[sid].is_included THEN drv ELSE "none",
                        !.on_error = on_error,
                        !.on_exception = on_exception,
                        !.on_failure = on_failure, !.raised = r.exc,
                        !.before = st[sid], !.queried = r.queried,
                        !.processed = r.processed]
          /\ stack' = Catch(r.exc, caught)
    /\ UNCHANGED <<statements_all, filters, filtered, e>>

\* Code in the body of a filter context raises: a Python built-in exception,
\* or a snowmobile Error built with the given to_raise.
BodyRaise(exc) ==
    /\ pending = NoErr
    /\ Len(stack) > 0
    /\ clock < MaxClock
    /\ pending' = exc
    /\ clock' = IF exc.has_to_raise THEN clock + 1 ELSE clock
    /\ ev' = [NoEvent EXCEPT !.op = "raise", !.depth = Len(stack),
                             !.raised = exc]
    /\ UNCHANGED <<st, statements_all, filters, filtered, e, stack>>

\* Code in the body of a filter context records an error in the script's
\* ledger: script.e.collect(Error(to_raise=tr)).
Collect(tr) ==
    /\ pending = NoErr
    /\ Len(stack) > 0
    /\ clock < MaxClock
    /\ \E r \in {ExceptionHandler_collect(e, Err("Error", TRUE, tr, clock),
                                          clock + 1)} :
          /\ e' = r.h
          /\ clock' = r.now
          /\ pending' = r.exc
          /\ ev' = [NoEvent EXCEPT !.op = "collect", !.depth = Len(stack),
                                   !.raised = r.exc]
    /\ UNCHANGED <<st, statements_all, filters, filtered, stack>>

\* Whether the caller catches what an operation raises is a choice only
\* where there is a body for it to propagate in.
Catches == IF Len(stack) > 0 THEN BOOLEAN ELSE {FALSE}

Next ==
    \/ \E f \in FilterCalls : FilterEnter(f.as_id, f.from_id, f.kwargs, f.last)
    \/ FilterExit
    \/ Statements
    \/ \E _id \in {None, 1}, f \in {<<"None", "None", "None">>, <<"c", "c", "c">>},
          plan \in Plans, caught \in Catches :
          ScriptRun(_id, f[1], f[2], f[3], plan, caught)
    \/ \E sid \in Sids, drv \in {"empty", "differ", "error"}, caught \in Catches :
          StatementRun(sid, "None", "None", "None", drv, caught)
    \/ BodyRaise(BuiltinError("ValueError", clock))
    \/ \E tr \in BOOLEAN : BodyRaise(Err("Error", TRUE, tr, clock))
    \/ \E tr \in BOOLEAN : Collect(tr)

Spec == Init /\ [][Next]_vars

\* ------------------------------------------- one statement, on its own
\* What a script does to one of its statements when a filter context opens:
\* the set_state call of Script._update_scope_statements, under the context
\* id the script has just read from the clock.
StatementScope(sid, kwargs) ==
    /\ clock < MaxClock
    /\ \E r \in {Statement_set_state(sid, st[sid], None, clock, "True",
                                     kwargs # EmptyScope, kwargs, clock + 1)} :
          /\ st' = [st EXCEPT ![sid] = r.s]
          /\ clock' = r.now
          /\ ev' = [NoEvent EXCEPT !.op = "scope", !.sid = sid,
                                   !.incl = st[sid].is_included,
                                   !.raised = r.exc, !.before = st[sid]]
    /\ UNCHANGED <<statements_all, filters, filtered, e, stack, pending>>

\* What a script does to one of its statements when a filter context
\* closes: the reset calls of Script.reset's batch_reset.
StatementReset(sid) ==
    /\ ev.op # "reset"
    /\ st' = [st EXCEPT ![sid] =
                 Statement_reset(sid,
                     Statement_reset(sid, st[sid], TRUE, FALSE, FALSE, FALSE),
                     FALSE, FALSE, FALSE, TRUE)]
    /\ ev' = [NoEvent EXCEPT !.op = "reset", !.sid = sid,
                             !.incl = st[sid].is_included, !.before = st[sid]]
    /\ UNCHANGED <<statements_all, filters, filtered, e, clock, stack, pending>>

\* No statement but sid has been touched: the statement under study.
Alone(sid) == \A j \in Sids \ {sid} : st[j] = NewStatement(j)

\* A statement object on its own: calls of its run() under every flag set
\* and driver answer, while filter contexts set and reset its scope.
NextStatement ==
    \/ \E sid \in Sids, f \in FlagSets, drv \in DriverAnswers :
          Alone(sid) /\ StatementRun(sid, f[1], f[2], f[3], drv, FALSE)
    \/ \E sid \in Sids, kwargs \in {Kw("incl", "kw", {"select"}),
                                    Kw("incl", "anchor", {"qa"})} :
          Alone(sid) /\ StatementScope(sid, kwargs)
    \/ \E sid \in Sids : Alone(sid) /\ StatementReset(sid)

SpecStatement == Init /\ [][NextStatement]_vars

\* A script's filter contexts on their own: entries, exits, reads of
\* script.statements, and bodies that raise or record errors.
NextFilter ==
    \/ \E f \in FilterCalls : FilterEnter(f.as_id, f.from_id, f.kwargs, f.last)
    \/ FilterExit
    \/ Statements
    \/ BodyRaise(BuiltinError("ValueError", clock))
    \/ \E tr \in BOOLEAN : BodyRaise(Err("Error", TRUE, tr, clock))
    \/ \E tr \in BOOLEAN : Collect(tr)

SpecFilter == Init /\ [][NextFilter]_vars

\* ------------------------------------------------ one handler, on its own
\* The errors handed to collect() in this part: snowmobile Errors with
\* either to_raise, and a Python built-in, which has none.
Collected == { Err("Error", TRUE, TRUE, clock), Err("Error", TRUE, FALSE, clock),
               BuiltinError("ValueError", clock) }

\* e.set(ctx_id=ctx_id): -1, or an id read from the clock earlier, as the
\* callers of set() pass it (a script's e.ctx_id handed to its statements).
HandlerSet(ctx_id) ==
    /\ clock < MaxClock
    /\ ctx_id = FreshCtx \/ ctx_id < clock
    /\ \E r \in {ExceptionHandler_set(e, ctx_id, FALSE, None, clock)} :
          /\ e' = r.h
          /\ clock' = r.now
          /\ ev' = [NoEvent EXCEPT !.op = "hset", !.id = ctx_id,
                                   !.hbefore = e, !.raised = r.exc]
    /\ UNCHANGED <<st, statements_all, filters, filtered, stack, pending>>

\* e.reset(ctx_id=True)
HandlerReset ==
    /\ e.ctx_id # None
    /\ e' = ExceptionHandler_reset(e, TRUE, FALSE, FALSE)
    /\ ev' = [NoEvent EXCEPT !.op = "hreset", !.hbefore = e]
    /\ UNCHANGED <<st, statements_all, filters, filtered, clock, stack, pending>>

\* e.collect(x)
HandlerCollect(x) ==
    /\ clock < MaxClock
    /\ \E r \in {ExceptionHandler_collect(e, x, clock)} :
          /\ e' = r.h
          /\ clock' = r.now
          /\ ev' = [NoEvent EXCEPT !.op = "hcollect", !.hbefore = e,
                                   !.arg = x, !.raised = r.exc]
    /\ UNCHANGED <<st, statements_all, filters, filtered, stack, pending>>

\* e.get(of_type=, to_raise=, last=, first=); get() leaves the handler as
\* it is, so one lookup is followed after each call that changes it.
HandlerGet(of_type, to_raise, last, first) ==
    /\ ev.op # "hget"
    /\ \E r \in {ExceptionHandler_get(e, of_type, to_raise, last, first, clock)} :
          ev' = [NoEvent EXCEPT !.op = "hget", !.hbefore = e,
                                !.of_type = of_type, !.to_raise = to_raise,
                                !.last = last, !.first = first,
                                !.raised = r.exc,
                                !.got = [val |-> r.val, is_dict |-> r.is_dict,
                                         matches |-> r.matches]]
    /\ UNCHANGED <<st, statements_all, filters, filtered, e, clock, stack,
                   pending>>

NextHandler ==
    \/ \E ctx_id \in {FreshCtx} \cup (1..MaxClock) : HandlerSet(ctx_id)
    \/ HandlerReset
    \/ \E x \in Collected : HandlerCollect(x)
    \/ \E of_type \in {{}, {"Error"}}, to_raise \in {"None", "True", "False"},
          lf \in {<<FALSE, FALSE>>, <<TRUE, FALSE>>, <<FALSE, TRUE>>} :
          HandlerGet(of_type, to_raise, lf[1], lf[2])

SpecHandler == Init /\ [][NextHandler]_vars

\* ------------------------------------------------ lookups in a script
\* The _id arguments looked up: indices in and out of range, counted from
\* either end, the names of the script's statements, and a name it lacks.
Keys == {IntKey(k) : k \in {-NumStatements - 1, -NumStatements, -1, 0, 1, 2,
                            NumStatements, NumStatements + 1}}
        \cup {StrKey(Source[i].tag.nm) : i \in Sids}
        \cup {StrKey("select data~missing")}

\* script.statement(_id), by a caller that catches what it raises.
Lookup(key) ==
    /\ pending = NoErr
    /\ clock < MaxClock
    /\ \E r \in {Script_statement_of(Sc, Script_names(Sc), key, clock)} :
          /\ Becomes(r.sc)
          /\ clock' = r.now
          /\ ev' = [NoEvent EXCEPT !.op = "lookup", !.key = key,
                                   !.depth = Len(stack), !.found = r.sid,
                                   !.raised = r.exc, !.pre = Snap(Sc),
                                   !.view = Script_statements(Sc).view]
    /\ UNCHANGED <<stack, pending>>

NextLookup ==
    \/ \E f \in FilterCalls : FilterEnter(f.as_id, f.from_id, f.kwargs, f.last)
    \/ FilterExit
    \/ \E key \in Keys : Lookup(key)

SpecLookup == Init /\ [][NextLookup]_vars

\* ------------------------------------------------- names and duplicates
\* Names the statements of a script may carry: those of the source text and
\* one more.
NameSet == {Source[i].tag.nm : i \in Sids} \cup {"select data~missing"}

\* The tag names of a script's statements, in order of position: every
\* assignment of a name to each statement, repeated names included.
NameLists == [Sids -> NameSet]

\* script.duplicates and script.statement(nm) on a script whose statements
\* carry `names`, by a caller that catches what the lookup raises. Neither
\* reads anything an earlier call left behind, so one call is explored.
NameLookup(names, nm) ==
    /\ pending = NoErr
    /\ ev.op = "init"
    /\ \E r \in {Script_statement_of(Sc, names, StrKey(nm), clock)} :
          /\ ev' = [NoEvent EXCEPT !.op = "names", !.names = names,
                                   !.dups = Script_duplicates(names),
                                   !.key = StrKey(nm), !.found = r.sid,
                                   !.raised = r.exc]
    /\ UNCHANGED <<st, statements_all, filters, filtered, e, clock, stack,
                   pending>>

NextNames == \E names \in NameLists, nm \in NameSet : NameLookup(names, nm)

SpecNames == Init /\ [][NextNames]_vars

\* ------------------------------------------------ runs of several statements
\* The _id arguments of the run() calls explored.
RunIds ==
    {NoneIds}
    \cup {IntIds(k) : k \in {1, NumStatements, -1}}
    \cup {ListIds(l) : l \in {<<>>, <<1>>, <<2>>, <<1, 2>>, <<2, 2>>,
                               <<NumStatements, 1>>}}
    \cup {TupleIds(t[1], t[2]) : t \in {<<1, NumStatements>>, <<0, 2>>,
                                         <<2, 2>>, <<2, 1>>, <<1, -1>>}}

\* Results under which every statement succeeds: nothing for a plain or a
\* qa-empty statement, equal partitions for a qa-diff statement.
RunPlan == [i \in Sids |-> IF Source[i].kind = "diff" THEN "equal" ELSE "empty"]

\* script.run(_id) with default flags, by a caller that catches what it
\* raises.
RunMany(_id) ==
    /\ pending = NoErr
    /\ clock < MaxClock
    /\ \E r \in {Script_run_of(Sc, _id, "None", "None", "None", RunPlan,
                               clock)} :
          /\ Becomes(r.sc)
          /\ clock' = r.now
          /\ ev' = [NoEvent EXCEPT !.op = "runids", !.ids = _id,
                        !.depth = Len(stack), !.plan = RunPlan,
                        !.raised = r.exc, !.ran = r.ran, !.pre = Snap(Sc),
                        !.view = Script_statements(Sc).view,
                        !.ctx = e.ctx_id]
    /\ UNCHANGED <<stack, pending>>

NextRun ==
    \/ \E f \in FilterCalls : FilterEnter(f.as_id, f.from_id, f.kwargs, f.last)
    \/ FilterExit
    \/ \E _id \in RunIds : RunMany(_id)

SpecRun == Init /\ [][NextRun]_vars

\* ------------------------------------------- driver errors during a run
\* The driver's answers explored: each statement's SQL either is invalid or
\* returns what makes the statement succeed.
ErrorPlans ==
    { [i \in Sids |-> IF i \in S THEN "error" ELSE RunPlan[i]] :
         S \in SUBSET Sids }

\* script.run(on_error=on_error) of every visible statement, by a caller
\* that catches what it raises.
RunAll(on_error, plan) ==
    /\ pending = NoErr
    /\ clock < MaxClock
    /\ \E r \in {Script_run(Sc, None, on_error, "None", "None", plan, clock)} :
          /\ Becomes(r.sc)
          /\ clock' = r.now
          /\ ev' = [NoEvent EXCEPT !.op = "runall", !.on_error = on_error,
                        !.depth = Len(stack), !.plan = plan,
                        !.raised = r.exc, !.ran = r.ran, !.pre = Snap(Sc),
                        !.view = Script_statements(Sc).view,
                        !.ctx = e.ctx_id, !.hbefore = e]
          /\ stack' = Catch(r.exc, TRUE)
    /\ UNCHANGED pending

NextSequence ==
    \/ \E f \in FilterCalls : FilterEnter(f.as_id, f.from_id, f.kwargs, f.last)
    \/ FilterExit
    \/ \E on_error \in {"None", "c"}, plan \in ErrorPlans :
          RunAll(on_error, plan)

SpecSequence == Init /\ [][NextSequence]_vars

\* ------------------------------------------------ markers and statements
\* How many markers the source text has above each statement and after the
\* last one.
MaxMarkers == 2
Layouts == [above : [Sids -> 0..MaxMarkers], trailing : 0..1]

\* Script._log_markers / _trailing_statement_markers: a marker's key is
\* idx + i/10, kept here as ten times its value; idx is the position at
\* parse time of the statement the marker is above, depth + 1 for a
\* trailing marker, and i counts the markers of that place from 1.
Script_markers(layout) ==
    { [k10 |-> 10 * x[1] + x[2], above |-> x[1]] :
         x \in { y \in Sids \X (1..MaxMarkers) : y[2] <= layout.above[y[1]] } }
    \cup { [k10 |-> 10 * (NumStatements + 1) + p, above |-> NumStatements + 1] :
             p \in 1..layout.trailing }

\* round(k) of Python for k = k10 / 10: to the nearest integer, a half to
\* the even one.
Round10(k10) ==
    LET q == k10 \div 10
        r == k10 % 10
    IN  IF r < 5 THEN q
        ELSE IF r > 5 THEN q + 1
        ELSE IF q % 2 = 0 THEN q ELSE q + 1

\* Script._get_marker_adjusted_idx(idx, counter) for a statement.
Script_adjusted_idx_statement(ms, idx) ==
    idx + Cardinality({ m \in ms : Round10(m.k10) <= idx })

\* Script._get_marker_adjusted_idx(idx, counter, is_marker=True, as_int=True)
Script_adjusted_idx_marker(ms, m) ==
    Round10(m.k10 + 10 * Cardinality({ x \in ms : x.k10 < m.k10 }))

\* Script._adjusted_contents: {**adjusted_markers, **adjusted_statements}
\* sorted by key, as the sequence of its items.
Script_adjusted_contents(sc, ms) ==
    With(Script_statements(sc).view, LAMBDA view :
       LET skey(j) == Script_adjusted_idx_statement(ms, view[j].key)
           keys    == SortedAsc({ skey(j) : j \in DOMAIN view }
                           \cup { Script_adjusted_idx_marker(ms, m) : m \in ms })
       IN [n \in DOMAIN keys |->
             IF \E j \in DOMAIN view : skey(j) = keys[n]
             THEN [key |-> keys[n], is_marker |-> FALSE,
                   sid |-> view[CHOOSE j \in DOMAIN view :
                                   /\ skey(j) = keys[n]
                                   /\ \A k \in DOMAIN view :
                                         skey(k) = keys[n] => k <= j].sid,
                   k10 |-> 0, above |-> 0]
             ELSE LET m == CHOOSE x \in ms :
                             /\ Script_adjusted_idx_marker(ms, x) = keys[n]
                             /\ \A y \in ms :
                                   Script_adjusted_idx_marker(ms, y) = keys[n]
                                      => y.k10 <= x.k10
                  IN [key |-> keys[n], is_marker |-> TRUE, sid |-> None,
                      k10 |-> m.k10, above |-> m.above]])

\* script.contents(markers=True) of a script parsed from a text with this
\* layout of markers, in the current view.
Contents(layout) ==
    /\ pending = NoErr
    /\ ev.op # "contents"
    /\ ev' = [NoEvent EXCEPT !.op = "contents", !.layout = layout,
                             !.depth = Len(stack),
                             !.view = Script_statements(Sc).view,
                             !.contents =
                                Script_adjusted_contents(Sc, Script_markers(layout))]
    /\ UNCHANGED <<st, statements_all, filters, filtered, e, clock, stack,
                   pending>>

\* The filter() calls explored with markers: those with keyword arguments
\* only.
MarkerFilterCalls ==
    { f \in FilterCalls : f.as_id = None /\ f.from_id = None /\ ~f.last }

NextMarkers ==
    \/ \E f \in MarkerFilterCalls :
          FilterEnter(f.as_id, f.from_id, f.kwargs, f.last)
    \/ FilterExit
    \/ \E layout \in Layouts : Contents(layout)

SpecMarkers == Init /\ [][NextMarkers]_vars

\* ------------------------------------------------- scopes, on their own
\* The tags explored: those of the source text, and one whose description
\* the user wrote with a capital letter.
ScopeTags ==
    { Templates[j].tag : j \in DOMAIN Templates }
    \cup { [kw |-> "select", obj |-> "unknown", desc |-> "Sample",
            anchor |-> "select data", nm |-> "select data~Sample"] }

\* Two sets of filter arguments passed together.
JoinKw(a, b) ==
    [t \in {"incl", "excl"} |->
        [c \in SCOPE_ATTRIBUTES |-> a[t][c] \cup b[t][c]]]

\* The filter arguments explored: none, or patterns to include for one
\* component and patterns to exclude for one component.
ScopeArgs ==
    { JoinKw(Kw("incl", x[1], x[2]), Kw("excl", x[3], x[4])) :
         x \in SCOPE_ATTRIBUTES \X {{}, {"qa"}, {"select"}, {"sample", "verify"}}
               \X SCOPE_ATTRIBUTES \X {{}, {"qa"}, {"select"}, {"sample", "verify"}} }

\* tag.scope(**kwargs) on a statement with this tag. The result depends on
\* the arguments alone, so one call is explored.
ScopeEval(tag, kwargs) ==
    /\ pending = NoErr
    /\ ev.op = "init"
    /\ ev' = [NoEvent EXCEPT !.op = "scope", !.tag = tag, !.kwargs = kwargs,
                             !.scoped = Tag_scope_of(tag, kwargs)]
    /\ UNCHANGED <<st, statements_all, filters, filtered, e, clock, stack,
                   pending>>

NextScope == \E tag \in ScopeTags, kwargs \in ScopeArgs : ScopeEval(tag, kwargs)

SpecScope == Init /\ [][NextScope]_vars

\* --------------------------------------------------- tags, on their own
\* The names a user writes in a tag: none, an anchor alone, an anchor and
\* the delimiter, an anchor with a description.
ProvidedNames ==
    {NoName}
    \cup { [anchor |-> a, sep |-> x[1], desc |-> x[2]] :
             a \in {<<"insert">>, <<"insert", "into">>,
                    <<"create", "temp", "table">>},
             x \in {<<FALSE, <<>>>>, <<TRUE, <<>>>>, <<TRUE, <<"sample">>>>} }

\* What the SQL under the tag gives: its keyword, the object found in its
\* first line (the default one when none is found), and its position.
Inferred ==
    [kw_ge : {<<"select">>, <<"create">>}, obj_ge : {DEF_OBJ, <<"table">>},
     index : {"#1", "#2", "#3"}]

\* The tag of a statement with this provided name over this SQL. It
\* depends on the arguments alone, so one construction is explored.
TagInit(nm_pr, sql) ==
    /\ pending = NoErr
    /\ ev.op = "init"
    /\ ev' = [NoEvent EXCEPT !.op = "tag", !.nm_pr = nm_pr, !.sql = sql,
                             !.tagged = Tag_init(nm_pr, sql.kw_ge, sql.obj_ge,
                                                 sql.index)]
    /\ UNCHANGED <<st, statements_all, filters, filtered, e, clock, stack,
                   pending>>

NextTag == \E nm_pr \in ProvidedNames, sql \in Inferred : TagInit(nm_pr, sql)

SpecTag == Init /\ [][NextTag]_vars

\* ------------------------------------------ qa-diff tolerances, on their own
\* Numbers are exact: a cell of a partition is an integer, an absolute
\* tolerance is in the unit of the cells and a relative tolerance is in
\* hundredths, so that 50 stands for 0.5.
MaxValue == 2

DiffCols == {"x", "y"}
DiffRows == {1, 2}

\* An attribute of the tag: absent, or written with a value (every value
\* of these two keys is parsed with float()).
NotGiven == [given |-> FALSE, v |-> 0]
Given(v) == [given |-> TRUE, v |-> v]

\* The defaults of script.qa.default-tolerance: float() for both.
DefaultTolerance == [relative |-> 0, absolute |-> 0]

\* A Python number with its type, which df_diff() looks at.
PyFloat(v) == [type |-> "float", v |-> v]
PyInt(v) == [type |-> "int", v |-> v]

AbsOf(x) == IF x < 0 THEN -x ELSE x

\* relative_tolerance is the attribute or the default; absolute_tolerance
\* is the attribute or the default when relative_tolerance is falsy, and
\* the integer 0 otherwise.
Diff_post_parse_init(attrs) ==
    With(IF attrs.rel.given THEN PyFloat(attrs.rel.v)
                            ELSE PyFloat(DefaultTolerance.relative),
         LAMBDA relative_tolerance :
            [relative_tolerance |-> relative_tolerance,
             absolute_tolerance |->
                IF relative_tolerance.v = 0
                THEN IF attrs.abs.given THEN PyFloat(attrs.abs.v)
                                        ELSE PyFloat(DefaultTolerance.absolute)
                ELSE PyInt(0)])

Frame_shared_cols(df1, df2) == DOMAIN df1 \cap DOMAIN df2

\* (col1 - col2).abs().max() <= abs(tolerance): a difference of two cells
\* is always a number, so the maximum is the largest of them.
Frame_series_max_diff_abs(col1, col2, tolerance) ==
    \A r \in DOMAIN col1 : AbsOf(col1[r] - col2[r]) <= AbsOf(tolerance)

\* ((col1 / col2) - 1).abs().max() <= abs(tolerance). In floating point
\* 0/0 is NaN and x/0 is infinite for x # 0; max() skips the NaNs, and is
\* NaN itself when every row is NaN, which compares False with anything.
Frame_series_max_diff_rel(col1, col2, tolerance) ==
    With({r \in DOMAIN col1 : ~(col1[r] = 0 /\ col2[r] = 0)},
         LAMBDA numbers :
            /\ numbers # {}
            /\ \A r \in numbers :
                  /\ col2[r] # 0
                  /\ 100 * AbsOf(col1[r] - col2[r])
                        <= AbsOf(tolerance) * AbsOf(col2[r]))

Frame_df_max_diff_abs(df1, df2, tolerance) ==
    \A c \in Frame_shared_cols(df1, df2) :
        Frame_series_max_diff_abs(df1[c], df2[c], tolerance)

Frame_df_max_diff_rel(df1, df2, tolerance) ==
    \A c \in Frame_shared_cols(df1, df2) :
        Frame_series_max_diff_rel(df1[c], df2[c], tolerance)

Frame_df_diff(df1, df2, rel_tol, abs_tol) ==
    IF abs_tol.type = "float"
    THEN Frame_df_max_diff_abs(df1, df2, abs_tol.v)
    ELSE Frame_df_max_diff_rel(df1, df2, rel_tol.v)

Diff_partitions_are_equal(partitions, abs_tol, rel_tol) ==
    \A i \in 1..(Len(partitions) - 1) :
        Frame_df_diff(partitions[i], partitions[i + 1], rel_tol, abs_tol)

\* The tolerances written in the tag: none, one of them, both; a relative
\* tolerance of a half, an absolute one of one unit.
ToleranceAttrs ==
    [rel : {NotGiven, Given(0), Given(50)}, abs : {NotGiven, Given(1)}]

\* The partitions compared: every pair of two-row tables over two
\* columns, and every triple of tables that hold one value in each cell.
DiffPartitions ==
    [1..2 -> [DiffCols -> [DiffRows -> 0..MaxValue]]]
    \cup [1..3 -> { [c \in DiffCols |-> [r \in DiffRows |-> v]] :
                      v \in 0..MaxValue }]

\* The comparison of these partitions under these attributes. It depends
\* on the arguments alone, so one comparison is explored.
DiffCompare(attrs, partitions) ==
    /\ pending = NoErr
    /\ ev.op = "init"
    /\ \E t \in {Diff_post_parse_init(attrs)} :
          ev' = [NoEvent EXCEPT
                    !.op = "diff", !.attrs = attrs, !.partitions = partitions,
                    !.equal = Diff_partitions_are_equal(
                                  partitions, t.absolute_tolerance,
                                  t.relative_tolerance)]
    /\ UNCHANGED <<st, statements_all, filters, filtered, e, clock, stack,
                   pending>>

NextDiff ==
    /\ ev.op = "init"
    /\ \E attrs \in ToleranceAttrs, partitions \in DiffPartitions :
          DiffCompare(attrs, partitions)

SpecDiff == Init /\ [][NextDiff]_vars

\* ------------------------------------------------- the keys of markers
\* The most markers written above one statement.
MaxAttached == 11

\* Script._log_markers(idx, markers) for n markers above statement idx: the
\* i-th of them gets the key idx + i/10, kept as ten times its value.
Script_log_markers(idx, n) ==
    { [k10 |-> 10 * idx + i, at |-> idx, nth |-> i, trailing |-> FALSE] :
         i \in 1..n }

\* Script._trailing_statement_markers: the markers after the last statement
\* are gathered in a set and enumerated from 1; order[j] is the position in
\* the source of the j-th marker the set yields.
Script_trailing_statement_markers(depth, order) ==
    { [k10 |-> 10 * (depth + 1) + j, at |-> depth + 1, nth |-> order[j],
       trailing |-> TRUE] : j \in DOMAIN order }

\* The orders in which a set of up to two marker texts is iterated: the
\* hash of a string differs from run to run.
SetOrders == {<<>>, <<1>>, <<1, 2>>, <<2, 1>>}

\* The markers of a script parsed from a text with above[i] markers above
\* statement i and Len(order) markers after the last statement. It depends
\* on the text alone, so one parse is explored.
ParseMarkers(above, order) ==
    /\ pending = NoErr
    /\ ev.op = "init"
    /\ ev' = [NoEvent EXCEPT
                 !.op = "markers",
                 !.marked =
                    UNION { Script_log_markers(i, above[i]) : i \in Sids }
                    \cup Script_trailing_statement_markers(NumStatements,
                                                           order)]
    /\ UNCHANGED <<st, statements_all, filters, filtered, e, clock, stack,
                   pending>>

NextParse ==
    /\ ev.op = "init"
    /\ \E above \in [Sids -> 0..MaxAttached], order \in SetOrders :
          ParseMarkers(above, order)

SpecParse == Init /\ [][NextParse]_vars

\* ------------------------------------------- the views of a script
\* A read of the property script.excluded, followed by one of
\* script.statements.
Excluded ==
    /\ pending = NoErr
    /\ \E r \in {Script_excluded(Sc)} :
       \E v \in {Script_statements(r.sc)} :
          /\ Becomes(v.sc)
          /\ ev' = [NoEvent EXCEPT !.op = "excluded", !.depth = Len(stack),
                                   !.excluded = r.excluded, !.view = v.view,
                                   !.pre = Snap(Sc)]
    /\ UNCHANGED <<clock, stack, pending>>

\* script.contents(ignore_scope=ignore_scope)
PlainContents(ignore_scope) ==
    /\ pending = NoErr
    /\ \E r \in {Script_contents(Sc, ignore_scope)} :
          /\ Becomes(r.sc)
          /\ ev' = [NoEvent EXCEPT !.op = "plain", !.depth = Len(stack),
                                   !.ignore_scope = ignore_scope,
                                   !.view = r.view, !.pre = Snap(Sc)]
    /\ UNCHANGED <<clock, stack, pending>>

NextViews ==
    \/ \E f \in FilterCalls : FilterEnter(f.as_id, f.from_id, f.kwargs, f.last)
    \/ FilterExit
    \/ Statements
    \/ Excluded
    \/ \E ignore_scope \in BOOLEAN : PlainContents(ignore_scope)

SpecViews == Init /\ [][NextViews]_vars

\* ------------------------------------- errors caught inside a context
\* Filter contexts whose bodies run the script or one of its statements
\* and catch whatever the call raises.
NextCaught ==
    \/ \E kwargs \in {EmptyScope, Kw("incl", "anchor", {"qa"})} :
          FilterEnter(None, None, kwargs, FALSE)
    \/ FilterExit
    \/ \E _id \in {None, 1}, f \in {<<"None", "None", "None">>, <<"c", "c", "c">>},
          plan \in Plans :
          ScriptRun(_id, f[1], f[2], f[3], plan, TRUE)
    \/ \E sid \in Sids, drv \in {"empty", "differ", "error"} :
          StatementRun(sid, "None", "None", "None", drv, TRUE)

SpecCaught == Init /\ [][NextCaught]_vars

\* ----------------------------------------------------------------- claims
\* The script is as it was just before the context being left was entered:
\* the same items of _statements_all in the same order, and every
\* statement's index and included flag.
Restored ==
    /\ statements_all = ev.pre.all
    /\ \A i \in Sids : /\ st[i].index = ev.pre.index[i]
                       /\ st[i].is_included = ev.pre.incl[i]

\* C1 (filter reversibility, P3): once a filter context has been entered and
\* then exited, _statements_all holds the same keys in the same order as
\* before the entry, and every statement has its pre-entry index and its
\* pre-entry included flag.
C1_FilterReversible == ev.op = "exit" => Restored

\* The statements whose tag is included, in source order.
Included == SelectSeq([i \in Sids |-> i], LAMBDA i : st[i].is_included)

\* C2 (filter renumbering, P4): a read of script.statements inside a filter
\* context returns the included statements and only them, keyed 1..K without
\* gaps in their source order, each with its index equal to its key.
C2_FilterRenumbering ==
    (ev.op = "statements" /\ ev.depth > 0) =>
        /\ Len(ev.view) = Len(Included)
        /\ \A j \in DOMAIN ev.view :
              /\ ev.view[j].key = j
              /\ ev.view[j].sid = Included[j]
              /\ st[ev.view[j].sid].index = j

\* C3: when the body of a filter context raised, whatever the exception,
\* every statement's index and included flag and the script's filtered flag
\* are back to their pre-entry values once control has left the context.
C3_RestoredAfterRaise ==
    (ev.op = "exit" /\ ev.thrown # NoErr) =>
        (Restored /\ filtered = ev.pre.filtered)

\* C4: when errors with to_raise=True were collected in a filter context,
\* the error raised out of the context on exit is the earliest-collected of
\* them.
C4_FirstRaisedOnExit ==
    (ev.op = "exit" /\ Len(ev.cands) >= 1) => ev.raised = ev.cands[1]

\* C4, two distinct candidates and one of them raised: it is the earliest.
C4_EarliestOfSeveral ==
    (ev.op = "exit" /\ Len(ev.cands) >= 2 /\ ev.cands[1] # ev.cands[2]
       /\ \E j \in DOMAIN ev.cands : ev.raised = ev.cands[j])
    => ev.raised = ev.cands[1]

\* Statement.outcome_txt()
Statement_outcome_txt(s) ==
    CASE s.e.outcome = OUTCOME_QA_PASSED   -> "passed"
      [] s.e.outcome = OUTCOME_QA_FAILED   -> "failed"
      [] s.e.outcome = OUTCOME_PP_ERROR    -> "error: post-processing"
      [] s.e.outcome = OUTCOME_EXEC_ERROR  -> "error: execution"
      [] s.e.outcome = OUTCOME_COMPLETED   -> "completed"
      [] OTHER                             -> ""

\* The errors statement i holds under context ctx.
LedgerOf(i, ctx) ==
    IF ctx \in DOMAIN st[i].e.by_ctx
    THEN {st[i].e.by_ctx[ctx][k] : k \in DOMAIN st[i].e.by_ctx[ctx]}
    ELSE {}

\* Every statement of the view is answered by the driver with a result that
\* passes: no error, no rows for a qa-empty, equal partitions for a qa-diff.
AllSucceed(view, plan) ==
    \A j \in DOMAIN view :
       /\ plan[view[j].sid] # "error"
       /\ Source[view[j].sid].kind = "empty" => plan[view[j].sid] = "empty"
       /\ Source[view[j].sid].kind = "diff" => plan[view[j].sid] = "equal"

\* C5: inside a filter context, script.run() of statements that all succeed
\* raises nothing and runs every visible statement under the context's id;
\* afterwards each visible statement is executed, a QA statement reports the
\* outcome text "passed", and no error is recorded for it.
C5_RunInsideFilter ==
    (ev.op = "run" /\ ev.depth > 0 /\ ev.id = None
       /\ AllSucceed(ev.view, ev.plan)) =>
        /\ ev.raised = NoErr
        /\ ev.ran = [j \in DOMAIN ev.view |-> ev.view[j].sid]
        /\ \A j \in DOMAIN ev.view :
              /\ st[ev.view[j].sid].executed
              /\ st[ev.view[j].sid].e.ctx_id = ev.ctx
              /\ Statement_is_derived(ev.view[j].sid) =>
                    Statement_outcome_txt(st[ev.view[j].sid]) = "passed"
              /\ LedgerOf(ev.view[j].sid, ev.ctx) = {}

\* The statement the last run() was called on, after the call.
Ran == st[ev.sid]

\* The outcome-code changes a run may make: 0 to 2, 0 to 1, 2 to -3, 2 to -2.
OutcomeSteps ==
    { <<OUTCOME_UNEXECUTED, OUTCOME_COMPLETED>>,
      <<OUTCOME_UNEXECUTED, OUTCOME_EXEC_ERROR>>,
      <<OUTCOME_COMPLETED, OUTCOME_QA_PASSED>>,
      <<OUTCOME_COMPLETED, OUTCOME_QA_FAILED>> }

\* C6: a statement's outcome code is one of 0, 1, 2, -2, -3, and within a
\* run it changes only from 0 to 2, from 0 to 1, from 2 to -3 or from 2 to -2.
C6_OutcomeCodes ==
    /\ \A i \in Sids :
          st[i]._outcome \in {OUTCOME_UNEXECUTED, OUTCOME_EXEC_ERROR,
                              OUTCOME_COMPLETED, OUTCOME_QA_FAILED,
                              OUTCOME_QA_PASSED}
    /\ ev.op = "srun" =>
          \A k \in 1..(Len(Ran.otrace) - 1) :
             Ran.otrace[k] # Ran.otrace[k + 1] =>
                <<Ran.otrace[k], Ran.otrace[k + 1]>> \in OutcomeSteps

C8_ExcludedRunIsNoOp ==
    (ev.op = "srun" /\ ~ev.incl) =>
        /\ ev.raised = NoErr
        /\ Ran.results = ev.before.results
        /\ Ran._outcome = ev.before._outcome
        /\ Ran.outcome = ev.before.outcome
        /\ Ran.executed = ev.before.executed
        /\ Ran.start_time = ev.before.start_time
        /\ Ran.end_time = ev.before.end_time
        /\ Ran.execution_time = ev.before.execution_time

\* C9: when the driver raises during run(), the error is in the statement's
\* ledger, the outcome is 1, and run() raises that error unless
\* on_error = "c", in which case it returns normally.
C9_DriverError ==
    (ev.op = "srun" /\ ev.drv = "error") =>
        /\ \E x \in LedgerOf(ev.sid, Ran.e.ctx_id) : x.cls \in db_errors
        /\ Ran._outcome = OUTCOME_EXEC_ERROR \/ Ran.e.outcome = OUTCOME_EXEC_ERROR
        /\ ev.on_error # "c" => ev.raised \in LedgerOf(ev.sid, Ran.e.ctx_id)
                                /\ ev.raised.cls \in db_errors
        /\ ev.on_error = "c" => ev.raised = NoErr

Failures == { x \in LedgerOf(ev.sid, Ran.e.ctx_id) : x.cls \in DERIVED_FAILURE_MAPPING }

\* The post-processing errors in that ledger.
PostProcessingErrors == { x \in LedgerOf(ev.sid, Ran.e.ctx_id) : x.cls \in pp_errors }

\* An included QA statement ran, its query succeeded and its validation
\* came out false without a post-processing error.
ValidationFailed ==
    /\ ev.op = "srun" /\ ev.incl /\ Statement_is_derived(ev.sid)
    /\ ev.drv \in DriverResults
    /\ ~Ran.outcome /\ PostProcessingErrors = {}

PostProcessingFailed ==
    /\ ev.op = "srun" /\ ev.incl /\ Statement_is_derived(ev.sid)
    /\ ev.drv \in DriverResults
    /\ PostProcessingErrors # {}

\* C12: when a QA statement's process() hits a post-processing exception, a
\* StatementPostProcessingError is collected and run() raises it unless
\* on_exception = "c"; with on_exception = "c", run() returns normally.
C12_PostProcessingError ==
    (ev.op = "srun" /\ ev.incl /\ Source[ev.sid].kind = "diff"
        /\ ev.drv \in {"empty", "nopart"})
    =>  /\ PostProcessingErrors # {}
        /\ ev.on_exception # "c" => ev.raised \in PostProcessingErrors
        /\ ev.on_exception = "c" => ev.raised = NoErr

\* C13 (error ledger, P9): after run() raises for a statement s,
\* s.e.seen(to_raise=True) is True and s.e.get(last=True) returns the exact
\* error that was raised.
C13_RaisedIsLastInLedger ==
    (ev.op = "srun" /\ ev.raised # NoErr) =>
        /\ ExceptionHandler_seen(Ran.e, {}, "True", clock).exc = NoErr
        /\ ExceptionHandler_seen(Ran.e, {}, "True", clock).val
        /\ ExceptionHandler_get(Ran.e, {}, "None", TRUE, FALSE, clock).exc = NoErr
        /\ ExceptionHandler_get(Ran.e, {}, "None", TRUE, FALSE, clock).val = ev.raised

\* The ledger handler h keeps under context c, empty if it has none.
Under(h, c) == IF c \in DOMAIN h.by_ctx THEN h.by_ctx[c] ELSE <<>>

\* C14: set(ctx_id=X) with X already present in by_ctx raises InternalError
\* and leaves ctx_id and by_ctx unchanged.
C14_NoContextReuse ==
    (ev.op = "hset" /\ ev.id \in DOMAIN ev.hbefore.by_ctx) =>
        /\ ev.raised.cls = "InternalError"
        /\ e.ctx_id = ev.hbefore.ctx_id
        /\ e.by_ctx = ev.hbefore.by_ctx

\* C14's case: a set() naming a context that already holds an error, made
\* while another context is the current one.
C14_Witness ==
    /\ ev.op = "hset" /\ ev.id \in DOMAIN ev.hbefore.by_ctx
    /\ ev.hbefore.by_ctx[ev.id] # <<>>
    /\ ev.hbefore.ctx_id # ev.id
    /\ ev.raised.cls = "InternalError"

Matching(h, of_type, to_raise) ==
    { t \in DOMAIN Under(h, h.ctx_id) :
        /\ of_type # {} => Under(h, h.ctx_id)[t].cls \in of_type
        /\ to_raise = "True" =>
              Under(h, h.ctx_id)[t].has_to_raise /\ Under(h, h.ctx_id)[t].to_raise
        /\ to_raise = "False" =>
              ~(Under(h, h.ctx_id)[t].has_to_raise /\ Under(h, h.ctx_id)[t].to_raise) }

\* C17: get(...) returns the matching errors of the queried context ordered
\* most-recent first; get(last=True) returns the most recently collected
\* match and get(first=True) the earliest-collected match; get(last=True)
\* raises InternalError when nothing matches.
C17_GetOrder ==
    (ev.op = "hget" /\ ev.hbefore.ctx_id \in DOMAIN ev.hbefore.by_ctx) =>
    LET led == Under(ev.hbefore, ev.hbefore.ctx_id)
        m   == Matching(ev.hbefore, ev.of_type, ev.to_raise)
    IN  /\ (ev.last /\ m = {}) => ev.raised.cls = "InternalError"
        /\ (ev.last /\ m # {}) =>
              /\ ev.raised = NoErr
              /\ \E t \in m : ev.got.val = led[t] /\ \A u \in m : u <= t
        /\ (ev.first /\ m # {}) =>
              /\ ev.raised = NoErr
              /\ \E t \in m : ev.got.val = led[t] /\ \A u \in m : t <= u
        /\ (~ev.last /\ ~ev.first) =>
              /\ ev.raised = NoErr
              /\ ev.got.is_dict
              /\ {ev.got.matches[j].t : j \in DOMAIN ev.got.matches} = m
              /\ \A j \in DOMAIN ev.got.matches :
                    /\ ev.got.matches[j].e = led[ev.got.matches[j].t]
                    /\ j > 1 => ev.got.matches[j].t < ev.got.matches[j - 1].t

\* The positions of the view whose statement is named nm.
Named(view, nm) == { j \in DOMAIN view : Source[view[j].sid].tag.nm = nm }

\* C18: statement(_id) returns the visible statement at 1-based index _id,
\* or for a negative _id the statement counted from the end, or the
\* statement whose unique name is _id; for any index or name that matches
\* no visible statement it raises StatementNotFoundError.
C18_StatementLookup ==
    ev.op = "lookup" =>
    LET view == ev.view
        at   == IF ev.key.k > 0 THEN ev.key.k ELSE Len(view) + ev.key.k + 1
        hits == IF ev.key.typ = "int"
                THEN { j \in DOMAIN view : view[j].key = at }
                ELSE Named(view, ev.key.nm)
    IN  /\ hits = {} => ev.raised.cls = "StatementNotFoundError"
        /\ Cardinality(hits) = 1 =>
              /\ ev.raised = NoErr
              /\ \E j \in hits : ev.found = view[j].sid

\* How often nm occurs among names.
Occurrences(names, nm) == Cardinality({ j \in DOMAIN names : names[j] = nm })

AtIndex(view, k) == view[CHOOSE j \in DOMAIN view : view[j].key = k].sid

\* The statements run(_id) is to run on a script with this view, in order.
Requested(view, _id) ==
    IF _id.typ = "none" THEN [j \in DOMAIN view |-> view[j].sid]
    ELSE IF _id.typ = "int" THEN <<AtIndex(view, _id.k)>>
    ELSE IF _id.typ = "list"
    THEN [j \in DOMAIN _id.items |-> AtIndex(view, _id.items[j])]
    ELSE [j \in 1..(_id.hi + 1 - _id.lo) |-> AtIndex(view, _id.lo + j - 1)]

\* The indices an _id names, when they are indices of the view.
Addressable(view, _id) ==
    LET idx == { view[j].key : j \in DOMAIN view }
    IN  /\ _id.typ = "int" => _id.k \in idx
        /\ _id.typ = "list" => \A j \in DOMAIN _id.items : _id.items[j] \in idx
        /\ _id.typ = "tuple" => _id.lo \in idx /\ _id.hi \in idx

\* C20: run(_id) that returns has run exactly the requested statements: the
\* one at an integer index, those at lo..hi in ascending order for a tuple,
\* exactly the listed ones for a list (none for the empty list), and every
\* visible statement in ascending index order for None.
C20_RunsRequested ==
    (ev.op = "runids" /\ ev.raised = NoErr /\ Addressable(ev.view, ev.ids)) =>
        ev.ran = Requested(ev.view, ev.ids)

\* C21: a run of the whole script outside any filter calls run() on the
\* visible statements one after another in index order; with on_error="c"
\* a driver error stops none of them, and otherwise the statements before
\* the one that raises all succeeded and none after it is run.
C21_RunOrder ==
    (ev.op = "runall" /\ ev.depth = 0) =>
        /\ Len(ev.ran) <= Len(ev.view)
        /\ \A j \in DOMAIN ev.ran : ev.ran[j] = ev.view[j].sid
        /\ ev.on_error = "c" => Len(ev.ran) = Len(ev.view)
        /\ Len(ev.ran) < Len(ev.view) => ev.raised # NoErr
        /\ \A j \in DOMAIN ev.ran :
              j < Len(ev.ran) => ev.plan[ev.ran[j]] # "error"

\* Positions of the statements in combined contents, and the position of
\* statement sid.
StatementPositions(c) == { n \in DOMAIN c : ~c[n].is_marker }
PositionOf(c, sid) == CHOOSE n \in StatementPositions(c) : c[n].sid = sid

\* C22: the keys of contents(markers=True) are 1..(statements + markers)
\* with nothing overwritten and in ascending order; a marker written above
\* a visible statement comes before it and after the statement before it,
\* and a trailing marker comes after the last statement.
C22_MarkerOrdering ==
    ev.op = "contents" =>
       LET c  == ev.contents
           ms == Script_markers(ev.layout)
       IN  /\ Len(c) = Len(ev.view) + Cardinality(ms)
           /\ \A n \in DOMAIN c : c[n].key = n
           /\ \A n \in DOMAIN c :
                 (c[n].is_marker /\ c[n].above = NumStatements + 1) =>
                    \A k \in StatementPositions(c) : k < n
           /\ \A n \in DOMAIN c :
                 (c[n].is_marker /\
                    \E k \in StatementPositions(c) : c[k].sid = c[n].above) =>
                    /\ n < PositionOf(c, c[n].above)
                    /\ \A k \in StatementPositions(c) :
                          k < PositionOf(c, c[n].above) => k < n

\* A pattern matches a base: the base occurs in the pattern as it is
\* written, or the pattern, read as a regular expression, is found in the
\* base.
Matches(p, base) == Occurs(base, p) \/ Occurs(p, base)

\* The inclusion patterns in force for a component: those passed, or the
\* component's own value when none was passed.
InclusionPatterns(tag, c, kwargs) ==
    IF kwargs["incl"][c] # {} THEN kwargs["incl"][c] ELSE {tag[c]}

\* The scope of component c includes the tag under kwargs.
ScopeIncludes(tag, c, kwargs) ==
    /\ \E p \in InclusionPatterns(tag, c, kwargs) : Matches(p, Lower(tag[c]))
    /\ \A p \in kwargs["excl"][c] : ~Matches(p, Lower(tag[c]))

C24_NoFilterIncludes ==
    (ev.op = "scope" /\ ev.kwargs = EmptyScope) => ev.scoped

\* The statements visible now.
Visible == { Script_statements(Sc).view[j].sid :
                j \in DOMAIN Script_statements(Sc).view }

\* A child context has just been entered inside a parent context, both by
\* filter(**kwargs) without as_id, from_id or last.
NestedEntered ==
    /\ ev.op = "enter" /\ ev.raised = NoErr /\ ev.depth = 1
    /\ Len(stack) = 2
    /\ stack[1].plain /\ stack[2].plain

\* C25: in a child context opened inside a parent context without from_id
\* or as_id, the visible statements are those that satisfy the filter
\* arguments of the parent and those of the child.
C25_NestedCompose ==
    NestedEntered =>
       Visible = { i \in Sids : /\ Tag_scope(i, stack[1].kwargs)
                                /\ Tag_scope(i, stack[2].kwargs) }

\* The items of Script.filters: saved scopes by id.
SavedScopes(fs) == { fs[j] : j \in DOMAIN fs }

\* This step enters a context by filter(**kwargs) without as_id, from_id
\* or last.
PlainEntry ==
    /\ ev'.op = "enter" /\ ev'.raised = NoErr
    /\ Len(stack') = Len(stack) + 1
    /\ stack'[Len(stack')].plain

\* C26: no step removes an id from filters, and a filter(**kwargs) call
\* without as_id or from_id adds the scope made of its kwargs under an id
\* that was not a key before and leaves every saved scope as it was.
C26_FiltersPreserved ==
    [][ /\ FilterIds(filters) \subseteq FilterIds(filters')
        /\ PlainEntry =>
              \E id \in FilterIds(filters') \ FilterIds(filters) :
                 SavedScopes(filters') =
                    SavedScopes(filters) \cup {[id |-> id, scope |-> ev'.kwargs]}
      ]_vars

\* C27: while a filter context is open every statement's handler has the
\* ctx_id of the script's handler, and once the outermost context has
\* exited every statement's handler has ctx_id None and in_context False.
C27_HandlersMirrored ==
    /\ Len(stack) > 0 => \A i \in Sids : st[i].e.ctx_id = e.ctx_id
    /\ (ev.op = "exit" /\ Len(stack) = 0) =>
          \A i \in Sids : st[i].e.ctx_id = None /\ ~st[i].e.in_context

\* C28: after a run() whose driver call fails, a statement that an earlier
\* run executed successfully no longer has executed = True, a completed or
\* passed outcome code, or the results of the earlier run.
C28_PerRunReset ==
    (ev.op = "srun" /\ ev.drv = "error" /\ ev.before.executed) =>
        /\ ~st[ev.sid].executed
        /\ st[ev.sid]._outcome \notin {OUTCOME_COMPLETED, OUTCOME_QA_PASSED}
        /\ st[ev.sid].results = "blank"

\* The components a provided name gives; an empty one is not provided.
Provided(nm_pr) ==
    [kw     |-> IF nm_pr.anchor # <<>> THEN <<nm_pr.anchor[1]>> ELSE <<>>,
     obj    |-> IF nm_pr.anchor # <<>> THEN Tail(nm_pr.anchor) ELSE <<>>,
     desc   |-> nm_pr.desc,
     anchor |-> nm_pr.anchor]

\* C29: each of kw, obj, desc and anchor is the provided value when the
\* name provides one and the generated value otherwise, and nm is the
\* provided name when there is one; in particular a name that provides
\* only an anchor gives that anchor and the generated description.
C29_OverrideIndependence ==
    ev.op = "tag" =>
       LET ge == Tag_generated(ev.sql.kw_ge, ev.sql.obj_ge, ev.sql.index)
           pr == Provided(ev.nm_pr)
       IN  /\ \A c \in {"kw", "obj", "desc", "anchor"} :
                 ev.tagged[c] = IF pr[c] # <<>> THEN pr[c] ELSE ge[c]
           /\ ev.tagged.nm = IF ev.nm_pr # NoName THEN ev.nm_pr ELSE ge.nm

\* A tolerance is set when the tag gives it a value other than zero.
ToleranceSet(a) == a.given /\ a.v # 0

\* The relative difference |x/y - 1| of two cells is at most `tol`
\* hundredths: equal cells differ by nothing, and nothing but zero is
\* within any tolerance of zero.
WithinRelative(x, y, tol) ==
    IF y = 0 THEN x = 0 ELSE 100 * AbsOf(x - y) <= tol * AbsOf(y)

WithinAbsolute(x, y, tol) == AbsOf(x - y) <= tol

\* What the tolerances allow between two cells: the relative tolerance
\* when it is set, else the absolute one when it is set, else equality.
CellsAgree(attrs, x, y) ==
    IF ToleranceSet(attrs.rel) THEN WithinRelative(x, y, attrs.rel.v)
    ELSE IF ToleranceSet(attrs.abs) THEN WithinAbsolute(x, y, attrs.abs.v)
    ELSE x = y

\* C30: QA.Diff tolerance (P6). The comparison of partitions P1..Pn passes
\* iff, for every consecutive pair of partitions and every shared column,
\* the maximum absolute difference is at most abs_tol (only abs_tol set)
\* or the maximum relative difference is at most rel_tol (rel_tol set,
\* whether or not abs_tol is); with neither set only equal partitions pass.
C30_DiffTolerance ==
    ev.op = "diff" =>
        (ev.equal <=>
            \A i \in 1..(Len(ev.partitions) - 1) :
                \A c \in DOMAIN ev.partitions[i]
                           \cap DOMAIN ev.partitions[i + 1] :
                    \A r \in DiffRows :
                        CellsAgree(ev.attrs, ev.partitions[i][c][r],
                                   ev.partitions[i + 1][c][r]))

\* C31: post-processing happens only when execution did not raise a
\* database error: a run() whose driver call raised does not invoke
\* process(), and a run() of an included statement whose driver call
\* succeeded invokes process() exactly once (the raise-or-continue checks
\* come after the try block, so after it).
C31_ProcessOnlyAfterSuccess ==
    (ev.op = "srun" /\ ev.queried) =>
        /\ ev.drv = "error" => ev.processed = 0
        /\ ev.drv # "error" => ev.processed = 1

\* C32: Script.filtered is True at every point inside a filter context, at
\* any nesting depth, and False whenever no filter context is open.
C32_FilteredInContext == filtered <=> Len(stack) > 0

\* C33: when a nested (inner) filter context exits, the enclosing context is
\* as it was just before the inner one was entered: the same visible
\* statements (the same items of _statements_all under the same filtered
\* flag), with the same indices and the same included flags.
C33_OuterUnaffected ==
    (ev.op = "exit" /\ ev.depth = 2) =>
        (Restored /\ filtered = ev.pre.filtered)

\* C34: after a filter context exits the context is popped: the script's
\* handler has in_context False and ctx_id None; and a later Script.run()
\* outside any context opens a context id the handler has not used before.
C34_ContextPopped ==
    /\ (ev.op = "exit" /\ Len(stack) = 0) =>
          (~e.in_context /\ e.ctx_id = None)
    /\ (ev.op = "runall" /\ ev.depth = 0) =>
          (e.ctx_id # None /\ e.ctx_id \notin DOMAIN ev.hbefore.by_ctx)

\* C35: an exception raised in the body of a filter context is never
\* swallowed: once the context has cleaned up, that exception leaves the
\* `with` block, whatever its to_raise flag.
C35_BodyErrorPropagates ==
    (ev.op = "exit" /\ ev.thrown # NoErr) => ev.raised = ev.thrown

C37_NameLookupInContext ==
    (ev.op = "lookup" /\ ev.depth > 0 /\ ev.key.typ = "str") =>
        \A i \in Sids :
           Source[i].tag.nm = ev.key.nm =>
              /\ ev.found \in {None, i}
              /\ Named(ev.view, ev.key.nm) # {} =>
                    (ev.raised = NoErr /\ ev.found = i)
              /\ Named(ev.view, ev.key.nm) = {} =>
                    ev.raised.cls = "StatementNotFoundError"

\* The statements of a sequence of dictionary items.
SidsOf(items) == { items[j].sid : j \in DOMAIN items }

\* C38: inside a filter context `excluded` holds exactly the statements
\* that are not included in the current context, so that `statements` and
\* `excluded` partition _statements_all.
C38_ExcludedPartition ==
    (ev.op = "excluded" /\ ev.depth > 0) =>
        /\ SidsOf(ev.excluded) = { i \in Sids : ~st[i].is_included }
        /\ SidsOf(ev.excluded) \cap SidsOf(ev.view) = {}
        /\ SidsOf(ev.excluded) \cup SidsOf(ev.view) = SidsOf(statements_all)

\* C39: contents(markers=False) returns the visible statements when
\* ignore_scope is False, and every statement whatever the current filter
\* when ignore_scope is True.
C39_ContentsScope ==
    ev.op = "plain" =>
        /\ ~ev.ignore_scope => SidsOf(ev.view) = Visible
        /\ ev.ignore_scope => SidsOf(ev.view) = SidsOf(statements_all)

\* C40: the i-th marker attached to a statement has the key
\* statement index + i/10, which lies strictly between that index and the
\* next integer; the j-th trailing marker in source order has the key
\* depth + 1 + j/10; two markers never share a key and no marker has the
\* index of a statement as its key.
C40_MarkerKeys ==
    ev.op = "markers" =>
        /\ \A m \in ev.marked :
              /\ m.k10 = 10 * m.at + m.nth
              /\ ~m.trailing => (10 * m.at < m.k10 /\ m.k10 < 10 * (m.at + 1))
              /\ \A i \in Sids : m.k10 # 10 * i
        /\ \A m1, m2 \in ev.marked : m1.k10 = m2.k10 => m1 = m2

====
